---- MODULE Spec2Model ----
(***************************************************************************)
(* covpeek: the unified coverage model (pkg/models), the aggregator        *)
(* (mergeReports, computeDiff) and the content-based format detector       *)
(* (internal/detector).                                                    *)
(*                                                                         *)
(* FileCoverage values live behind pointers in Go.  The model keeps them   *)
(* in a heap indexed by object identity, and a CoverageReport is the map   *)
(* from path to object identity, so that two reports holding the same      *)
(* *FileCoverage see each other's writes, as in the program.               *)
(*                                                                         *)
(* A float64 percentage is modelled as the exact rational <<num, den>> in  *)
(* lowest terms with den > 0.  For the small counts used here two          *)
(* percentages are equal as float64 exactly when they are equal as         *)
(* rationals, and float64 subtraction is exactly antisymmetric, as is the  *)
(* rational one.                                                           *)
(***************************************************************************)
EXTENDS Integers, Sequences, FiniteSets, TLC

VARIABLES
    heap,        \* object identity -> FileCoverage struct, for the allocated objects
    reports,     \* report slot -> CoverageReport.Files (path -> object identity)
    pc,          \* position of the caller's script
    call,        \* the last operation: its name, argument slots and result slot
    recomputed,  \* objects CalculateCoverage was called on by the last operation
    diffs,       \* <<x, y>> -> the CoverageDiff returned by computeDiff(x, y)
    overall,     \* the last CalculateOverallCoverage call and what it returned
    stream,      \* the lines handed to DetectFormat
    detected,    \* what DetectFormat returned for stream
    selection,   \* the last format selection: its caller, inputs and outcome
    lcovRun,     \* the LCOVParser and the locals of its Parse loop
    goRun,       \* the GoCoverParser and the locals of its Parse loop
    xmlRun,      \* the PyCoverXMLParser, the document it was given and its result
    jsonRun,     \* the PyCoverJSONParser, the document it was given and its result
    ciRun,       \* the ci command: its flag, the files it found and its exit
    instances,   \* one long-lived parser of each kind and its last Parse call
    table        \* the tableModel of the terminal UI

vars == <<heap, reports, pc, call, recomputed, diffs, overall, stream, detected,
          selection, lcovRun, goRun,
          xmlRun, jsonRun, ciRun, instances, table>>

\* The nil *FileCoverage.
Nil == <<"nil">>

-----------------------------------------------------------------------------
(* Bounds                                                                  *)

MaxLines == 2
NegLines == 1
MaxCovered == 1
MaxFiles == 3
MaxDiffCalls == 2
MaxBlank == 2
MaxFill == 10

Paths == {"f.go", "g.go"}
InReports == {"A", "B", "C"}
Objs == InReports \X Paths

-----------------------------------------------------------------------------
(* Rational arithmetic standing for float64                                *)

Abs(x) == IF x < 0 THEN -x ELSE x

RECURSIVE GCD(_, _)
GCD(a, b) == IF b = 0 THEN a ELSE GCD(b, a % b)

Rat(n, d) ==
    LET g == GCD(Abs(n), d)
    IN  <<n \div g, d \div g>>

Zero == <<0, 1>>

RatSub(a, b) == Rat(a[1] * b[2] - b[1] * a[2], a[2] * b[2])

RatNeg(a) == <<-a[1], a[2]>>

-----------------------------------------------------------------------------
(* pkg/models                                                              *)

\* &FileCoverage{FileName: p, TotalLines: t, CoveredLines: c}; CoveragePct is
\* the zero value.
FileCoverage(p, t, c) ==
    [FileName |-> p, TotalLines |-> t, CoveredLines |-> c, CoveragePct |-> Zero]

NewCoverageReport == << >>

\* A variant of AddFile that keeps the entry a path already has.
AddFileKeepingFirst(h, r, obj) == r @@ (h[obj].FileName :> obj)

\* r.Files[fc.FileName] = fc, on the Files map r; obj is the pointer fc.
AddFile(h, r, obj) == (h[obj].FileName :> obj) @@ r

\* r.Files[filename]: the pointer, or Nil when the key is absent.
GetFile(r, filename) == IF filename \in DOMAIN r THEN r[filename] ELSE Nil

\* fc.CalculateCoverage() as a function of the struct: the field is written
\* only when TotalLines > 0.
CalculateCoverage(fc) ==
    IF fc.TotalLines > 0
    THEN [fc EXCEPT !.CoveragePct = Rat(100 * fc.CoveredLines, fc.TotalLines)]
    ELSE fc

RECURSIVE SumField(_, _, _, _)
SumField(h, r, S, fld) ==
    IF S = {} THEN 0
    ELSE LET p == CHOOSE x \in S : TRUE
         IN  h[r[p]][fld] + SumField(h, r, S \ {p}, fld)

\* CalculateOverallCoverage averaging over the files that have a covered line.
CalculateOverallSkippingUncovered(h, r) ==
    LET hit == {p \in DOMAIN r : h[r[p]].CoveredLines > 0}
        totalLines == SumField(h, r, hit, "TotalLines")
        totalCovered == SumField(h, r, hit, "CoveredLines")
    IN  [totalLines |-> totalLines,
         totalCovered |-> totalCovered,
         overallPct |-> IF totalLines > 0
                        THEN Rat(100 * totalCovered, totalLines)
                        ELSE Zero]

\* r.CalculateOverallCoverage(): <<totalLines, totalCovered, overallPct>>.
CalculateOverallCoverage(h, r) ==
    LET totalLines == SumField(h, r, DOMAIN r, "TotalLines")
        totalCovered == SumField(h, r, DOMAIN r, "CoveredLines")
    IN  [totalLines |-> totalLines,
         totalCovered |-> totalCovered,
         overallPct |-> IF totalLines > 0
                        THEN Rat(100 * totalCovered, totalLines)
                        ELSE Zero]

-----------------------------------------------------------------------------
(* cmd/covpeek/ci.go: mergeReports                                         *)

\* MergeFile with the counts of a recurring path replaced instead of summed.
MergeFileReplacing(st, obj) ==
    LET file == st.heap[obj]
        existing == GetFile(st.merged, file.FileName)
    IN  IF existing # Nil
        THEN [st EXCEPT
                !.heap[existing] = CalculateCoverage(
                    [@ EXCEPT !.TotalLines = file.TotalLines,
                              !.CoveredLines = file.CoveredLines]),
                !.recomputed = @ \cup {existing}]
        ELSE [st EXCEPT !.merged = AddFile(st.heap, st.merged, obj)]

\* The body of the inner loop for one file of one input report.  st carries
\* the heap, the Files map of merged and the objects recomputed so far.
MergeFile(st, obj) ==
    LET file == st.heap[obj]
        existing == GetFile(st.merged, file.FileName)
    IN  IF existing # Nil
        THEN [st EXCEPT
                !.heap[existing] = CalculateCoverage(
                    [@ EXCEPT !.TotalLines = @ + file.TotalLines,
                              !.CoveredLines = @ + file.CoveredLines]),
                !.recomputed = @ \cup {existing}]
        ELSE [st EXCEPT !.merged = AddFile(st.heap, st.merged, obj)]

\* for _, file := range report.Files.  Go visits the keys in an unspecified
\* order; the keys of one map are distinct paths, so the visits commute.
RECURSIVE MergeOne(_, _, _)
MergeOne(st, r, S) ==
    IF S = {} THEN st
    ELSE LET p == CHOOSE x \in S : TRUE
         IN  MergeOne(MergeFile(st, r[p]), r, S \ {p})

\* for _, report := range reports; rs is the slice, as Files maps.
RECURSIVE MergeAll(_, _)
MergeAll(st, rs) ==
    IF rs = << >> THEN st
    ELSE MergeAll(MergeOne(st, Head(rs), DOMAIN Head(rs)), Tail(rs))

mergeReports(h, rs) ==
    MergeAll([heap |-> h, merged |-> NewCoverageReport, recomputed |-> {}], rs)

-----------------------------------------------------------------------------
(* Inputs: reports as the parsers hand them over                           *)

\* The tail of every parser and of the tests' fixtures: a fresh struct with
\* its counts set, then CalculateCoverage.  LF:/LH: values are taken with
\* strconv.Atoi, which accepts a sign, so a count can be negative.
ParsedFile(p, t, c) == CalculateCoverage(FileCoverage(p, t, c))

Counts == ((-NegLines)..MaxLines) \X (0..MaxCovered)

\* Every input report owns its FileCoverage objects: object <<r, p>> is the
\* entry of path p created by the parse that produced report r.
InitReports(S, cnt) ==
    /\ heap = [o \in S |-> ParsedFile(o[2], cnt[o][1], cnt[o][2])]
    /\ reports = [s \in InReports |->
                    [p \in {q \in Paths : <<s, q>> \in S} |-> <<s, p>>]]

NoCall == [op |-> "none", args |-> << >>, ret |-> "none"]

InitMerge ==
    /\ \E S \in {T \in SUBSET Objs : Cardinality(T) <= MaxFiles} :
         \E cnt \in [S -> Counts] : InitReports(S, cnt)
    /\ pc = "start"
    /\ call = NoCall
    /\ recomputed = {}
    /\ diffs = << >>
    /\ overall = [op |-> "none"]
    /\ stream = << >>
    /\ detected = [op |-> "none"]
    /\ selection = [op |-> "none"]
    /\ lcovRun = [op |-> "none"]
    /\ goRun = [op |-> "none"]
    /\ xmlRun = [op |-> "none"]
    /\ jsonRun = [op |-> "none"]
    /\ ciRun = [op |-> "none"]
    /\ instances = [op |-> "none"]
    /\ table = [op |-> "none"]

-----------------------------------------------------------------------------
(* Callers of mergeReports                                                 *)

\* merged := mergeReports([]*CoverageReport{srcs...}), kept in slot dst.
Merge(srcs, dst, next) ==
    LET st == mergeReports(heap, [i \in 1..Len(srcs) |-> reports[srcs[i]]])
    IN  /\ heap' = st.heap
        /\ reports' = (dst :> st.merged) @@ reports
        /\ recomputed' = st.recomputed
        /\ call' = [op |-> "mergeReports", args |-> srcs, ret |-> dst]
        /\ pc' = next
        /\ UNCHANGED <<diffs, overall, stream, detected,
                 selection, lcovRun, goRun,
                 xmlRun, jsonRun, ciRun, instances, table>>

\* Slices of distinct input reports, of every length and in every order.
ReportLists ==
    {rs \in UNION {[1..n -> InReports] : n \in 0..Cardinality(InReports)} :
        \A i, j \in DOMAIN rs : i # j => rs[i] # rs[j]}

\* runCI (ci.go:57) and the badge command (badge.go:70): one merge of the
\* reports that parsed.
MergeInputs ==
    /\ pc = "start"
    /\ \E rs \in ReportLists : Merge(rs, "M", "merged")

\* The regrouping of section 8: [A,B] then C, and then [C,B] then A, in one run.
MergeAB ==
    /\ pc = "start"
    /\ Merge(<<"A", "B">>, "AB", "ab")

MergeABthenC ==
    /\ pc = "ab"
    /\ Merge(<<"AB", "C">>, "ABC", "abc")

MergeCB ==
    /\ pc = "abc"
    /\ Merge(<<"C", "B">>, "CB", "cb")

MergeCBthenA ==
    /\ pc = "cb"
    /\ Merge(<<"CB", "A">>, "CBA", "cba")

\* fc.CalculateCoverage() on one file of a report, by a caller.
Recompute ==
    /\ pc = "cba"
    /\ \E o \in DOMAIN heap :
         /\ heap' = [heap EXCEPT ![o] = CalculateCoverage(@)]
         /\ recomputed' = {o}
         /\ call' = [op |-> "CalculateCoverage", args |-> <<o>>, ret |-> "none"]
    /\ pc' = "recomputed"
    /\ UNCHANGED <<reports, diffs, overall, stream, detected,
                 selection, lcovRun, goRun,
                 xmlRun, jsonRun, ciRun, instances, table>>

NextMerge ==
    \/ MergeInputs
    \/ MergeAB
    \/ MergeABthenC
    \/ MergeCB
    \/ MergeCBthenA
    \/ Recompute

SpecMerge == InitMerge /\ [][NextMerge]_vars

-----------------------------------------------------------------------------
(* Properties of mergeReports                                              *)

\* The inputs of the last mergeReports call, as Files maps of state-before
\* (reps) or state-after, and the positions of those that hold path p.
Holders(reps, args, p) == {i \in DOMAIN args : p \in DOMAIN reps[args[i]]}

RECURSIVE SumInputs(_, _, _, _, _, _)
SumInputs(h, reps, args, I, p, fld) ==
    IF I = {} THEN 0
    ELSE LET i == CHOOSE x \in I : TRUE
         IN  h[reps[args[i]][p]][fld] + SumInputs(h, reps, args, I \ {i}, p, fld)

\* C1: mergeReports returns a report whose file set is the union of the
\* inputs' file sets, and whose TotalLines and CoveredLines for every path are
\* the sums, over the inputs holding the path, of the values those inputs had
\* when the call was made.
C1_MergeSumsOverUnion ==
    [][call'.op = "mergeReports" =>
        LET args == call'.args
            merged == reports'[call'.ret]
        IN  /\ DOMAIN merged = UNION {DOMAIN reports[args[i]] : i \in DOMAIN args}
            /\ \A p \in DOMAIN merged :
                 /\ heap'[merged[p]].FileName = p
                 /\ heap'[merged[p]].TotalLines =
                      SumInputs(heap, reports, args, Holders(reports, args, p),
                                p, "TotalLines")
                 /\ heap'[merged[p]].CoveredLines =
                      SumInputs(heap, reports, args, Holders(reports, args, p),
                                p, "CoveredLines")]_vars

\* A merge of three reports in which one path recurs in all of them with
\* nonzero counts and another path occurs in one report only.
C1_Witness ==
    /\ call.op = "mergeReports"
    /\ Len(call.args) = 3
    /\ \E p, q \in DOMAIN reports[call.ret] :
         /\ Cardinality(Holders(reports, call.args, p)) >= 2
         /\ Cardinality(Holders(reports, call.args, q)) = 1
         /\ heap[reports[call.ret][p]].TotalLines = 2 * MaxLines
         /\ heap[reports[call.ret][p]].CoveredLines >= 2

\* C2: mergeReports leaves every FileCoverage of every input report as it
\* was: same TotalLines, CoveredLines and CoveragePct after the call as before.
C2_MergeKeepsOperands ==
    [][call'.op = "mergeReports" =>
        \A i \in DOMAIN call'.args :
          \A p \in DOMAIN reports[call'.args[i]] :
            heap'[reports[call'.args[i]][p]] = heap[reports[call'.args[i]][p]]]_vars

\* C3: once [A,B] then C and [C,B] then A have both been merged in one run,
\* the two results hold the same paths with the same TotalLines, CoveredLines
\* and CoveragePct.
C3_MergeRegroups ==
    pc = "cba" =>
        /\ DOMAIN reports["ABC"] = DOMAIN reports["CBA"]
        /\ \A p \in DOMAIN reports["ABC"] :
             LET l == heap[reports["ABC"][p]]
                 r == heap[reports["CBA"][p]]
             IN  /\ l.TotalLines = r.TotalLines
                 /\ l.CoveredLines = r.CoveredLines
                 /\ l.CoveragePct = r.CoveragePct

\* C6: after CalculateCoverage was called on a FileCoverage, its CoveragePct
\* is 0 when TotalLines is 0, and CoveredLines/TotalLines*100 when TotalLines
\* is positive.
C6_RecomputeConsistent ==
    \A o \in recomputed :
        /\ heap[o].TotalLines = 0 => heap[o].CoveragePct = Zero
        /\ heap[o].TotalLines > 0 =>
             heap[o].CoveragePct = Rat(100 * heap[o].CoveredLines, heap[o].TotalLines)

-----------------------------------------------------------------------------
(* computeDiff                                                             *)

\* FileMap collecting the first report's keys only.
FileMapFirstOnly(ra, rb) == DOMAIN ra

\* fileMap after the two collecting loops: the keys of both Files maps.
FileMap(ra, rb) == DOMAIN ra \cup DOMAIN rb

\* The FileChange appended for fname: a nil GetFile leaves the side at 0.0.
FileChange(h, ra, rb, fname) ==
    LET fcA == GetFile(ra, fname)
        fcB == GetFile(rb, fname)
        covA == IF fcA # Nil THEN h[fcA].CoveragePct ELSE Zero
        covB == IF fcB # Nil THEN h[fcB].CoveragePct ELSE Zero
    IN  [FileName |-> fname, CoverageA |-> covA, CoverageB |-> covB,
         Delta |-> RatSub(covB, covA)]

\* FileChanges with the entries of unchanged files left out.
FileChangesSkippingZero(h, ra, rb, order) ==
    SelectSeq([i \in 1..Len(order) |-> FileChange(h, ra, rb, order[i])],
              LAMBDA c : c.Delta # Zero)

\* for fname := range fileMap, appending one FileChange per key; order is the
\* order in which Go happens to visit the keys.
FileChanges(h, ra, rb, order) ==
    [i \in 1..Len(order) |-> FileChange(h, ra, rb, order[i])]

computeDiff(h, ra, rb, order) ==
    LET overallA == CalculateOverallCoverage(h, ra).overallPct
        overallB == CalculateOverallCoverage(h, rb).overallPct
    IN  [OverallA |-> overallA,
         OverallB |-> overallB,
         OverallDelta |-> RatSub(overallB, overallA),
         FileChanges |-> FileChanges(h, ra, rb, order)]

\* The orders in which a range over a map with key set S can visit it.
Orders(S) ==
    {o \in [1..Cardinality(S) -> S] : \A i, j \in DOMAIN o : i # j => o[i] # o[j]}

DiffReports == {"A", "B"}

\* The two reports of the diff command; the third slot stays empty.
InitDiff ==
    /\ \E S \in {T \in SUBSET (DiffReports \X Paths) : Cardinality(T) <= MaxFiles} :
         \E cnt \in [S -> Counts] : InitReports(S, cnt)
    /\ pc = "start"
    /\ call = NoCall
    /\ recomputed = {}
    /\ diffs = << >>
    /\ overall = [op |-> "none"]
    /\ stream = << >>
    /\ detected = [op |-> "none"]
    /\ selection = [op |-> "none"]
    /\ lcovRun = [op |-> "none"]
    /\ goRun = [op |-> "none"]
    /\ xmlRun = [op |-> "none"]
    /\ jsonRun = [op |-> "none"]
    /\ ciRun = [op |-> "none"]
    /\ instances = [op |-> "none"]
    /\ table = [op |-> "none"]

\* diff := computeDiff(reports[x], reports[y]); the result is kept under <<x, y>>.
ComputeDiff ==
    /\ pc \in {"start", "diff"}
    /\ Cardinality(DOMAIN diffs) < MaxDiffCalls
    /\ \E x, y \in DiffReports :
         \E order \in Orders(FileMap(reports[x], reports[y])) :
           /\ diffs' = (<<x, y>> :> computeDiff(heap, reports[x], reports[y], order))
                          @@ diffs
           /\ call' = [op |-> "computeDiff", args |-> <<x, y>>, ret |-> "none"]
    /\ pc' = "diff"
    /\ UNCHANGED <<heap, reports, recomputed, overall, stream, detected,
                 selection, lcovRun, goRun,
                 xmlRun, jsonRun, ciRun, instances, table>>

\* totalLines, totalCovered, overallPct := reports[r].CalculateOverallCoverage()
CalcOverall ==
    /\ pc = "start"
    /\ \E r \in DiffReports :
         /\ overall' = [op |-> "CalculateOverallCoverage", report |-> r,
                        ret |-> CalculateOverallCoverage(heap, reports[r])]
         /\ call' = [op |-> "CalculateOverallCoverage", args |-> <<r>>, ret |-> "none"]
    /\ pc' = "overall"
    /\ UNCHANGED <<heap, reports, recomputed, diffs, stream, detected,
                 selection, lcovRun, goRun,
                 xmlRun, jsonRun, ciRun, instances, table>>

NextDiff ==
    \/ ComputeDiff
    \/ CalcOverall

SpecDiff == InitDiff /\ [][NextDiff]_vars

-----------------------------------------------------------------------------
(* Properties of computeDiff and CalculateOverallCoverage                  *)

\* a = b - c on rationals, by cross-multiplication.
IsDifference(a, b, c) == a[1] * (b[2] * c[2]) = (b[1] * c[2] - c[1] * b[2]) * a[2]

\* The stored percentage of path p in report slot r, 0 where r has no p.
StoredPct(r, p) ==
    IF p \in DOMAIN reports[r] THEN heap[reports[r][p]].CoveragePct ELSE Zero

ChangedPaths(d) == {d.FileChanges[i].FileName : i \in DOMAIN d.FileChanges}

\* C4: computeDiff(A,B) holds exactly one FileChange for every path of the
\* union of both file sets and none for another path; each side's coverage is
\* the stored percentage, 0 for a report without the path, Delta is CoverageB
\* minus CoverageA, so a path only in B has CoverageA 0 and Delta = CoverageB.
C4_DiffCoversUnion ==
    \A k \in DOMAIN diffs :
        LET fc == diffs[k].FileChanges
            U == DOMAIN reports[k[1]] \cup DOMAIN reports[k[2]]
        IN  /\ \A p \in U : Cardinality({i \in DOMAIN fc : fc[i].FileName = p}) = 1
            /\ \A i \in DOMAIN fc :
                 /\ fc[i].FileName \in U
                 /\ fc[i].CoverageA = StoredPct(k[1], fc[i].FileName)
                 /\ fc[i].CoverageB = StoredPct(k[2], fc[i].FileName)
                 /\ IsDifference(fc[i].Delta, fc[i].CoverageB, fc[i].CoverageA)
                 /\ fc[i].FileName \notin DOMAIN reports[k[1]] =>
                      /\ fc[i].CoverageA = Zero
                      /\ fc[i].Delta = fc[i].CoverageB

\* A diff with one path only in the second report, at a nonzero percentage,
\* and one path in both reports whose delta is 0.
C4_Witness ==
    \E k \in DOMAIN diffs :
        \E i, j \in DOMAIN diffs[k].FileChanges :
            LET fc == diffs[k].FileChanges
            IN  /\ fc[i].FileName \notin DOMAIN reports[k[1]]
                /\ fc[i].Delta # Zero
                /\ fc[j].FileName \in DOMAIN reports[k[1]] \cap DOMAIN reports[k[2]]
                /\ fc[j].CoverageA # Zero
                /\ fc[j].Delta = Zero

\* C5: computeDiff(A,B).OverallDelta is the negation of
\* computeDiff(B,A).OverallDelta, each being OverallB - OverallA of its call,
\* and both calls list the same set of paths.
C5_DiffAntisymmetric ==
    \A x, y \in DiffReports :
        (<<x, y>> \in DOMAIN diffs /\ <<y, x>> \in DOMAIN diffs) =>
            LET dxy == diffs[<<x, y>>]
                dyx == diffs[<<y, x>>]
            IN  /\ IsDifference(dxy.OverallDelta, dxy.OverallB, dxy.OverallA)
                /\ dxy.OverallDelta[1] * dyx.OverallDelta[2]
                     = -(dyx.OverallDelta[1] * dxy.OverallDelta[2])
                /\ ChangedPaths(dxy) = ChangedPaths(dyx)

\* Both directions computed for two reports with different file sets and
\* different overall percentages.
C5_Witness ==
    /\ <<"A", "B">> \in DOMAIN diffs
    /\ <<"B", "A">> \in DOMAIN diffs
    /\ diffs[<<"A", "B">>].OverallDelta[1] > 0
    /\ DOMAIN reports["A"] # DOMAIN reports["B"]
    /\ DOMAIN reports["A"] # {}
    /\ DOMAIN reports["B"] # {}

\* The sum of field fld over the files of report slot r, path by path.
RECURSIVE SumPaths(_, _, _)
SumPaths(r, S, fld) ==
    IF S = {} THEN 0
    ELSE LET p == CHOOSE x \in S : TRUE
         IN  (IF p \in DOMAIN reports[r] THEN heap[reports[r][p]][fld] ELSE 0)
             + SumPaths(r, S \ {p}, fld)

\* overallPct = totalCovered / totalLines * 100, by cross-multiplication.
IsPercentage(pct, totalCovered, totalLines) ==
    pct[1] * totalLines = 100 * totalCovered * pct[2]

\* C7 as stated: CalculateOverallCoverage returns the sums of TotalLines and
\* CoveredLines over the files, and totalCovered/totalLines*100, or 0 when
\* totalLines is 0; it does not modify the report.
C7_OverallAsStated ==
    [][overall'.op = "CalculateOverallCoverage" =>
        LET ret == overall'.ret
            r == overall'.report
        IN  /\ ret.totalLines = SumPaths(r, Paths, "TotalLines")
            /\ ret.totalCovered = SumPaths(r, Paths, "CoveredLines")
            /\ IF ret.totalLines = 0
               THEN ret.overallPct = Zero
               ELSE IsPercentage(ret.overallPct, ret.totalCovered, ret.totalLines)
            /\ heap' = heap
            /\ reports' = reports]_vars

\* C7 as amended: the same, with overallPct 0 whenever totalLines is not
\* positive (0 or negative).
C7_OverallCoverage ==
    [][overall'.op = "CalculateOverallCoverage" =>
        LET ret == overall'.ret
            r == overall'.report
        IN  /\ ret.totalLines = SumPaths(r, Paths, "TotalLines")
            /\ ret.totalCovered = SumPaths(r, Paths, "CoveredLines")
            /\ IF ret.totalLines <= 0
               THEN ret.overallPct = Zero
               ELSE IsPercentage(ret.overallPct, ret.totalCovered, ret.totalLines)
            /\ heap' = heap
            /\ reports' = reports]_vars

\* CalculateOverallCoverage has run on a report of two files, one of them
\* with lines but none covered, and returned a percentage strictly between
\* 0 and 100.
C7_Witness ==
    /\ overall.op = "CalculateOverallCoverage"
    /\ Cardinality(DOMAIN reports[overall.report]) = 2
    /\ \E p \in DOMAIN reports[overall.report] :
         /\ heap[reports[overall.report][p]].CoveredLines = 0
         /\ heap[reports[overall.report][p]].TotalLines > 0
    /\ overall.ret.totalCovered > 0
    /\ overall.ret.overallPct \notin {Zero, <<100, 1>>}

-----------------------------------------------------------------------------
(* internal/detector: DetectFormat                                         *)

\* A line of the stream is its whitespace-separated fields, in order, and
\* whether whitespace surrounds them.  The predicates the detector applies to
\* a line are decided by its fields; the tables say which fields of the
\* vocabulary begin with, or contain, the strings the detector looks for.
RawLine(pad, toks) == [pad |-> pad, toks |-> toks]

ModePrefixed == {"mode:", "mode:set", "mode:x"}
CoverageTagged == {"<coverage", "<coverage>"}
ClassTagged == {"<class"}
FilenameAttr == {"filename=\"a.py\">"}
JSONKeyed == {"\"files\":", "\"executed_lines\":", "TN:\"files\""}
LCOVPrefixed == {"TN:t", "SF:a.go", "FN:1,f", "FNDA:1,f", "DA:1,1", "LH:1", "LF:2",
                 "TN:\"files\""}

UnknownFormat == "Unknown"
LCOVFormat == "LCOV"
GoCoverFormat == "Go Coverage"
PyCoverXMLFormat == "Python XML Coverage"
PyCoverJSONFormat == "Python JSON Coverage"

maxLinesToCheck == 10

\* strings.TrimSpace(scanner.Text())
TrimSpace(l) == [l EXCEPT !.pad = FALSE]

\* line == ""
IsEmpty(l) == ~l.pad /\ l.toks = << >>

\* strings.HasPrefix(line, pfx), for the prefixes of table T
HasPrefixIn(l, T) == ~l.pad /\ l.toks # << >> /\ l.toks[1] \in T

\* strings.Fields(line)
Fields(l) == l.toks

\* The Go marker test accepting every mode value and every line number.
GoMarkerAnyValue(l, lineCount) ==
    /\ HasPrefixIn(l, ModePrefixed)
    /\ Len(Fields(l)) = 2

\* lineCount == 1 && HasPrefix(line, "mode:"), two fields, the second one of
\* set, count, atomic.
GoMarker(l, lineCount) ==
    /\ lineCount = 1
    /\ HasPrefixIn(l, ModePrefixed)
    /\ LET parts == Fields(l)
       IN  /\ Len(parts) = 2
           /\ parts[2] \in {"set", "count", "atomic"}

\* strings.Contains(line, "<coverage") || strings.Contains(line, "<class filename=")
XMLMarker(l) ==
    \/ \E i \in DOMAIN l.toks : l.toks[i] \in CoverageTagged
    \/ \E i \in DOMAIN l.toks :
         /\ i + 1 \in DOMAIN l.toks
         /\ l.toks[i] \in ClassTagged
         /\ l.toks[i + 1] \in FilenameAttr

\* strings.Contains(line, `"files"`) || strings.Contains(line, `"executed_lines"`)
JSONMarker(l) == \E i \in DOMAIN l.toks : l.toks[i] \in JSONKeyed

\* One of the seven prefixes, or the line end_of_record.
LCOVMarker(l) ==
    \/ HasPrefixIn(l, LCOVPrefixed)
    \/ (~l.pad /\ l.toks = <<"end_of_record">>)

NoMarkers == [go |-> FALSE, xml |-> FALSE, json |-> FALSE, lcov |-> FALSE]

\* The body of the loop for one scanned line; lineCount is already incremented.
CheckLine(flags, raw, lineCount) ==
    LET line == TrimSpace(raw)
    IN  IF IsEmpty(line) THEN flags
        ELSE [go |-> flags.go \/ GoMarker(line, lineCount),
              xml |-> flags.xml \/ XMLMarker(line),
              json |-> flags.json \/ JSONMarker(line),
              lcov |-> flags.lcov \/ LCOVMarker(line)]

\* The loop condition letting one line more through.
KeepScanningOneMore(lineCount) == lineCount <= maxLinesToCheck

\* lineCount < maxLinesToCheck
KeepScanning(lineCount) == lineCount < maxLinesToCheck

\* for scanner.Scan() && lineCount < maxLinesToCheck
RECURSIVE ScanLines(_, _, _)
ScanLines(lines, lineCount, flags) ==
    IF lineCount < Len(lines) /\ KeepScanning(lineCount)
    THEN ScanLines(lines, lineCount + 1,
                   CheckLine(flags, lines[lineCount + 1], lineCount + 1))
    ELSE flags

\* The final chain with the record format tested first.
DetermineLCOVFirst(flags) ==
    IF flags.lcov THEN LCOVFormat
    ELSE IF flags.go THEN GoCoverFormat
    ELSE IF flags.xml THEN PyCoverXMLFormat
    ELSE IF flags.json THEN PyCoverJSONFormat
    ELSE UnknownFormat

\* "Determine format based on markers found"
Determine(flags) ==
    IF flags.go THEN GoCoverFormat
    ELSE IF flags.xml THEN PyCoverXMLFormat
    ELSE IF flags.json THEN PyCoverJSONFormat
    ELSE IF flags.lcov THEN LCOVFormat
    ELSE UnknownFormat

\* The reader is in memory and every line fits the scanner's token buffer,
\* so scanner.Err() is nil and the early return is not taken.
DetectFormat(lines) ==
    [format |-> Determine(ScanLines(lines, 0, NoMarkers)), err |-> "nil"]

-----------------------------------------------------------------------------
(* Streams handed to DetectFormat                                          *)

BlankLine == RawLine(FALSE, << >>)
FillLine == RawLine(FALSE, <<"a.go:1.1,2.2", "1", "1">>)

SampleLines ==
    { BlankLine,
      RawLine(TRUE, << >>),
      RawLine(FALSE, <<"mode:", "set">>),
      RawLine(TRUE, <<"mode:", "atomic">>),
      RawLine(FALSE, <<"mode:", "bogus">>),
      RawLine(FALSE, <<"mode:set">>),
      RawLine(FALSE, <<"mode:x", "count">>),
      RawLine(FALSE, <<"mode:", "set", "x">>),
      RawLine(FALSE, <<"<coverage", "version=\"7\">">>),
      RawLine(TRUE, <<"<class", "filename=\"a.py\">">>),
      RawLine(FALSE, <<"\"files\":", "{">>),
      RawLine(FALSE, <<"SF:a.go">>),
      RawLine(TRUE, <<"DA:1,1">>),
      RawLine(FALSE, <<"end_of_record">>),
      RawLine(FALSE, <<"TN:\"files\"">>),
      RawLine(FALSE, <<"FNF:1">>),
      FillLine }

Repeat(l, n) == [i \in 1..n |-> l]

\* Up to MaxBlank blank lines, a first line, an optional blank line, up to
\* MaxFill range-format entry lines, and at most one last line.
Streams ==
    { << >> } \cup
    { Repeat(BlankLine, pre) \o <<first>> \o Repeat(BlankLine, gap)
        \o Repeat(FillLine, fill) \o last :
        pre \in 0..MaxBlank, first \in SampleLines, gap \in 0..1,
        fill \in 0..MaxFill, last \in {<< >>} \cup {<<l>> : l \in SampleLines} }

InitDetect ==
    /\ stream \in Streams
    /\ detected = [op |-> "none"]
    /\ heap = << >>
    /\ reports = << >>
    /\ pc = "start"
    /\ call = NoCall
    /\ recomputed = {}
    /\ diffs = << >>
    /\ overall = [op |-> "none"]
    /\ selection = [op |-> "none"]
    /\ lcovRun = [op |-> "none"]
    /\ goRun = [op |-> "none"]
    /\ xmlRun = [op |-> "none"]
    /\ jsonRun = [op |-> "none"]
    /\ ciRun = [op |-> "none"]
    /\ instances = [op |-> "none"]
    /\ table = [op |-> "none"]

\* format, err := detector.DetectFormat(bytes.NewReader(content))
Detect ==
    /\ detected.op = "none"
    /\ detected' = [op |-> "DetectFormat", ret |-> DetectFormat(stream)]
    /\ call' = [op |-> "DetectFormat", args |-> << >>, ret |-> "none"]
    /\ pc' = "detected"
    /\ UNCHANGED <<heap, reports, recomputed, diffs, overall, stream,
                 selection, lcovRun, goRun,
                 xmlRun, jsonRun, ciRun, instances, table>>

NextDetect == Detect

SpecDetect == InitDetect /\ [][NextDetect]_vars

-----------------------------------------------------------------------------
(* Properties of DetectFormat                                              *)

Min(a, b) == IF a < b THEN a ELSE b

\* The lines the loop reads: the first maxLinesToCheck lines of the stream.
Scanned == 1..Min(Len(stream), maxLinesToCheck)

\* The positions of the non-empty lines, and of the first n of them.
NonEmpty == {i \in DOMAIN stream : ~IsEmpty(TrimSpace(stream[i]))}
FirstNonEmpty(n) == {i \in NonEmpty : Cardinality({j \in NonEmpty : j < i}) < n}

\* A line `mode: <value>`: the field mode: followed by one value.
IsModeLine(l) == Len(l.toks) = 2 /\ l.toks[1] = "mode:"

C9_AnyModeLineAsStated ==
    detected.op = "DetectFormat" =>
        \A i \in FirstNonEmpty(1) :
            IsModeLine(stream[i]) => detected.ret.format = GoCoverFormat

\* C9 as amended: the result is range-format exactly when the first line of
\* the stream (blank lines are not skipped), trimmed, begins with mode: and
\* has two fields of which the second is set, count or atomic.
C9_ModeLine ==
    detected.op = "DetectFormat" =>
        (detected.ret.format = GoCoverFormat <=>
            /\ stream # << >>
            /\ Len(stream[1].toks) = 2
            /\ stream[1].toks[1] \in ModePrefixed
            /\ stream[1].toks[2] \in {"set", "count", "atomic"})

\* DetectFormat has answered for a stream whose first line is blank and
\* whose second line is `mode: set`, and the answer is not range-format.
C9_Witness ==
    /\ detected.op = "DetectFormat"
    /\ Len(stream) >= 2
    /\ IsEmpty(TrimSpace(stream[1]))
    /\ stream[2].toks = <<"mode:", "set">>
    /\ detected.ret.format # GoCoverFormat

\* The formats a marker of kind xml, json or lcov on line l allows as result.
AccountsFor(l, f) ==
    /\ XMLMarker(TrimSpace(l)) => f \in {GoCoverFormat, PyCoverXMLFormat}
    /\ JSONMarker(TrimSpace(l)) =>
         f \in {GoCoverFormat, PyCoverXMLFormat, PyCoverJSONFormat}
    /\ LCOVMarker(TrimSpace(l)) => f # UnknownFormat

\* C10 as stated: a marker on any of the first 10 non-empty lines is taken
\* into account, and the result is that of the stream cut after its 10th
\* non-empty line.
C10_TenNonEmptyAsStated ==
    detected.op = "DetectFormat" =>
        /\ \A i \in FirstNonEmpty(maxLinesToCheck) :
             AccountsFor(stream[i], detected.ret.format)
        /\ \A n \in DOMAIN stream :
             FirstNonEmpty(maxLinesToCheck) \subseteq 1..n =>
                detected.ret = DetectFormat(SubSeq(stream, 1, n))

\* C10 as amended: a marker on a non-empty line among the first 10 lines,
\* blank lines counted, is taken into account, and the result is that of the
\* stream cut after its 10th line.
C10_TenLines ==
    detected.op = "DetectFormat" =>
        /\ \A i \in 1..Len(stream) :
             i <= maxLinesToCheck => AccountsFor(stream[i], detected.ret.format)
        /\ \A n \in DOMAIN stream :
             n >= maxLinesToCheck => detected.ret = DetectFormat(SubSeq(stream, 1, n))

\* DetectFormat has answered Unknown for a stream whose only marker is on
\* line 11, the 10th non-empty line; and the marker is a record-format one.
C10_Witness ==
    /\ detected.op = "DetectFormat"
    /\ detected.ret.format = UnknownFormat
    /\ Len(stream) = 11
    /\ Cardinality(NonEmpty) = 10
    /\ LCOVMarker(TrimSpace(stream[11]))

-----------------------------------------------------------------------------
(* Format selection: detector.DetectFormatByExtension and the three        *)
(* callers that choose a parser (parseCoverageContent, parseCoverageFile,  *)
(* runParse).                                                              *)
(*                                                                         *)
(* A file name is the sequence of its dot-separated segments, so that      *)
(* "lcov.info.bak" is <<"lcov", "info", "bak">>.  strings.ToLower works    *)
(* segment by segment; suffix and substring tests are tests on segments.   *)

ToLowerSeg(s) ==
    CASE s = "COVERAGE" -> "coverage"
      [] s = "OUT" -> "out"
      [] s = "GO" -> "go"
      [] s = "LCOV" -> "lcov"
      [] OTHER -> s

ToLower(name) == [i \in 1..Len(name) |-> ToLowerSeg(name[i])]

\* strings.HasSuffix(filename, "." + ext)
HasSuffix(name, ext) == Len(name) >= 2 /\ name[Len(name)] = ext

\* Lower-case segments that contain "coverage".
HoldsCoverage == {"coverage", "coverage/report", "mycoverage"}

\* strings.Contains(filename, "coverage"): the word holds no dot.
ContainsCoverage(name) == \E i \in 1..Len(name) : name[i] \in HoldsCoverage

\* Lower-case segments that end in "lcov" and that start with "info".
EndsInLcov == {"lcov"}
StartsWithInfo == {"info"}

\* strings.Contains(filename, "lcov.info")
ContainsLcovInfo(name) ==
    \E i \in 1..(Len(name) - 1) :
        name[i] \in EndsInLcov /\ name[i + 1] \in StartsWithInfo

DetectFormatByExtension(filename) ==
    LET name == ToLower(filename)
    IN  IF HasSuffix(name, "out") THEN GoCoverFormat
        ELSE IF HasSuffix(name, "xml") /\ ContainsCoverage(name)
            THEN PyCoverXMLFormat
        ELSE IF HasSuffix(name, "json") /\ ContainsCoverage(name)
            THEN PyCoverJSONFormat
        ELSE IF \/ HasSuffix(name, "lcov")
                \/ HasSuffix(name, "info")
                \/ ContainsLcovInfo(name)
            THEN LCOVFormat
        ELSE UnknownFormat

\* The outcome of choosing a format: which detectors were called, the format
\* and the error the caller returns before any parser runs.
Chosen(byExt, byContent, format, err) ==
    [byExtension |-> byExt, byContent |-> byContent, format |-> format,
     err |-> err]

\* A variant that asks the content before the extension.
DetectContentFirst(filePath, content) ==
    LET d == DetectFormat(content)
    IN  IF d.format # UnknownFormat
        THEN Chosen(FALSE, TRUE, d.format, "nil")
        ELSE LET e == DetectFormatByExtension(filePath)
             IN  IF e = UnknownFormat
                 THEN Chosen(TRUE, TRUE, e, "unable to detect format")
                 ELSE Chosen(TRUE, TRUE, e, "nil")

\* format := DetectFormatByExtension(filePath); DetectFormat(content) only
\* when that is Unknown; an error when both are.
DetectByExtensionThenContent(filePath, content) ==
    LET e == DetectFormatByExtension(filePath)
    IN  IF e # UnknownFormat
        THEN Chosen(TRUE, FALSE, e, "nil")
        ELSE LET d == DetectFormat(content)
             IN  IF d.err # "nil"
                 THEN Chosen(TRUE, TRUE, UnknownFormat, d.err)
                 ELSE IF d.format = UnknownFormat
                     THEN Chosen(TRUE, TRUE, UnknownFormat,
                                 "unable to detect format")
                     ELSE Chosen(TRUE, TRUE, d.format, "nil")

\* runParse: switch strings.ToLower(forceFormat)
ForcedFormat(forceFormat) ==
    LET f == ToLowerSeg(forceFormat)
    IN  IF f \in {"lcov", "rust", "ts"} THEN Chosen(FALSE, FALSE, LCOVFormat, "nil")
        ELSE IF f = "go" THEN Chosen(FALSE, FALSE, GoCoverFormat, "nil")
        ELSE IF f \in {"python", "pyxml"}
            THEN Chosen(FALSE, FALSE, PyCoverXMLFormat, "nil")
        ELSE IF f = "pyjson" THEN Chosen(FALSE, FALSE, PyCoverJSONFormat, "nil")
        ELSE Chosen(FALSE, FALSE, UnknownFormat, "unknown format")

\* switch format { case ...: p := parser.NewXParser(); p.Parse(content) }
ParserFor(format) ==
    CASE format = LCOVFormat -> "LCOVParser"
      [] format = GoCoverFormat -> "GoCoverParser"
      [] format = PyCoverXMLFormat -> "PyCoverXMLParser"
      [] format = PyCoverJSONFormat -> "PyCoverJSONParser"
      [] OTHER -> "none"

\* The parser a caller runs once the format is chosen: none after an error.
Dispatch(caller, filePath, content, forceFormat, c) ==
    [op |-> caller, file |-> filePath, content |-> content,
     forced |-> forceFormat,
     byExtension |-> c.byExtension, byContent |-> c.byContent,
     format |-> c.format,
     parser |-> IF c.err = "nil" THEN ParserFor(c.format) ELSE "none",
     err |-> IF c.err # "nil" THEN c.err
             ELSE IF ParserFor(c.format) = "none" THEN "unsupported format"
             ELSE "nil"]

parseCoverageContent(content, filePath) ==
    Dispatch("parseCoverageContent", filePath, content, "",
             DetectByExtensionThenContent(filePath, content))

parseCoverageFile(filePath, content) ==
    Dispatch("parseCoverageFile", filePath, content, "",
             DetectByExtensionThenContent(filePath, content))

runParse(coverageFile, content, forceFormat) ==
    Dispatch("runParse", coverageFile, content, forceFormat,
             IF forceFormat # "" THEN ForcedFormat(forceFormat)
             ELSE DetectByExtensionThenContent(coverageFile, content))

SampleFiles ==
    { <<"coverage", "out">>, <<"COVERAGE", "OUT">>, <<"out">>,
      <<"coverage", "xml">>, <<"report", "xml">>, <<"coverage/report", "xml">>,
      <<"coverage", "xml", "out">>,
      <<"mycoverage", "json">>, <<"data", "json">>,
      <<"app", "lcov">>, <<"test", "info">>, <<"lcov", "info", "bak">>,
      <<"LCOV", "info", "txt">>, <<"cov", "txt">>, <<"coverage">> }

SampleContents == { << >> } \cup { <<l>> : l \in SampleLines }

ForceNames == {"lcov", "rust", "ts", "go", "GO", "python", "pyxml", "pyjson",
               "java"}

InitSelect ==
    /\ selection = [op |-> "none"]
    /\ lcovRun = [op |-> "none"]
    /\ goRun = [op |-> "none"]
    /\ xmlRun = [op |-> "none"]
    /\ jsonRun = [op |-> "none"]
    /\ ciRun = [op |-> "none"]
    /\ instances = [op |-> "none"]
    /\ table = [op |-> "none"]
    /\ stream = << >>
    /\ detected = [op |-> "none"]
    /\ heap = << >>
    /\ reports = << >>
    /\ pc = "start"
    /\ call = NoCall
    /\ recomputed = {}
    /\ diffs = << >>
    /\ overall = [op |-> "none"]

SelectIdle ==
    /\ selection.op = "none"
    /\ pc' = "selected"
    /\ UNCHANGED <<heap, reports, call, recomputed, diffs, overall, stream,
                   detected, lcovRun, goRun,
                   xmlRun, jsonRun, ciRun, instances, table>>

ParseCoverageContent ==
    /\ SelectIdle
    /\ \E f \in SampleFiles, c \in SampleContents :
        selection' = parseCoverageContent(c, f)

ParseCoverageFile ==
    /\ SelectIdle
    /\ \E f \in SampleFiles, c \in SampleContents :
        selection' = parseCoverageFile(f, c)

RunParse ==
    /\ SelectIdle
    /\ \E f \in SampleFiles, c \in SampleContents, force \in {""} \cup ForceNames :
        selection' = runParse(f, c, force)

NextSelect == ParseCoverageContent \/ ParseCoverageFile \/ RunParse

SpecSelect == InitSelect /\ [][NextSelect]_vars

-----------------------------------------------------------------------------
(* Properties of format selection                                          *)

Selected == selection.op # "none"

\* C11: without a forced format, an extension that names a format selects
\* that format's parser whatever the content is and the content is not
\* looked at; when the extension names none the content detector is called
\* and its format's parser runs; when both say Unknown the caller returns
\* an error and no parser runs.  In runParse a forced format selects the
\* parser and neither detector is called.
C11_ExtensionBeforeContent ==
    Selected =>
        LET byExt == DetectFormatByExtension(selection.file)
            byContent == DetectFormat(selection.content).format
        IN  /\ (selection.forced = "" /\ byExt # UnknownFormat) =>
                /\ selection.parser = ParserFor(byExt)
                /\ selection.parser # "none"
                /\ ~selection.byContent
                /\ selection.err = "nil"
            /\ (selection.forced = "" /\ byExt = UnknownFormat) =>
                /\ selection.byContent
                /\ selection.parser = ParserFor(byContent)
                /\ (byContent = UnknownFormat) =
                       (selection.err # "nil" /\ selection.parser = "none")
            /\ selection.forced # "" =>
                /\ selection.op = "runParse"
                /\ ~selection.byExtension /\ ~selection.byContent
                /\ selection.parser = ParserFor(ForcedFormat(selection.forced).format)

\* An LCOV-looking content in a file named coverage.out goes to the Go
\* parser, and no content detection took place.
C11_Witness ==
    /\ selection.op = "parseCoverageContent"
    /\ selection.file = <<"coverage", "out">>
    /\ DetectFormat(selection.content).format = LCOVFormat
    /\ selection.parser = "GoCoverParser"
    /\ ~selection.byContent

-----------------------------------------------------------------------------
(* pkg/parser: the record-format (LCOV) parser                             *)
(*                                                                         *)
(* A line is its surrounding whitespace, the text before its first colon   *)
(* (head; "" when the line holds no colon) and the rest split at commas    *)
(* (parts).  A string that may hold commas, such as a file or function     *)
(* name, is the sequence of its comma-separated parts.                     *)

MaxLcovLines == 4
MaxWarnings == 1

LcovLine(pad, head, parts) == [pad |-> pad, head |-> head, parts |-> parts]

\* The decimal strings the inputs use, with the value strconv.Atoi gives.
Numerals ==
    ("0" :> 0) @@ ("1" :> 1) @@ ("2" :> 2) @@ ("3" :> 3) @@ ("-1" :> -1)
        @@ ("+2" :> 2)

\* strconv.Atoi(s) for a string without comma
Atoi(s) ==
    IF s \in DOMAIN Numerals THEN [ok |-> TRUE, n |-> Numerals[s]]
    ELSE [ok |-> FALSE, n |-> 0]

\* strconv.Atoi(data) for the rest of a line: a comma is no digit
AtoiData(parts) ==
    IF Len(parts) = 1 THEN Atoi(parts[1]) ELSE [ok |-> FALSE, n |-> 0]

\* The nil *FileCoverage of the Parse loop.
NilFile == [nil |-> TRUE]

IsNilFile(f) == "nil" \in DOMAIN f

\* &models.FileCoverage{FileName: filename, Functions: ..., Lines: ...}
NewFileCoverage(filename) ==
    [FileName |-> filename, TotalLines |-> 0, CoveredLines |-> 0,
     CoveragePct |-> Zero, Functions |-> << >>, Lines |-> << >>]

\* r.Files[fc.FileName] = fc for a report that is the only holder of fc
PutFile(files, fc) == (fc.FileName :> fc) @@ files

ParseOK(file) == [err |-> "nil", file |-> file]
ParseErr(file, msg) == [err |-> msg, file |-> file]

\* strings.SplitN(data, ",", 2)
SplitN2(parts) ==
    IF Len(parts) < 2 THEN parts ELSE <<<<parts[1]>>, Tail(parts)>>

parseFN(parts, file) ==
    IF Len(parts) < 2 THEN ParseErr(file, "invalid FN format")
    ELSE LET lineNumber == Atoi(parts[1])
             functionName == SplitN2(parts)[2]
         IN  IF ~lineNumber.ok THEN ParseErr(file, "invalid line number in FN")
             ELSE ParseOK([file EXCEPT !.Functions =
                     Append(@, [Name |-> functionName,
                                LineNumber |-> lineNumber.n,
                                ExecutionCount |-> 0])])

\* The functions of the file a valid FNDA record of that name updates.
MatchingFunctions(file, functionName) ==
    {i \in DOMAIN file.Functions : file.Functions[i].Name = functionName}

\* A variant that appends an entry for a name no FN record declared.
parseFNDAAddingUnknown(parts, file) ==
    IF Len(parts) < 2 THEN ParseErr(file, "invalid FNDA format")
    ELSE LET execCount == Atoi(parts[1])
             functionName == SplitN2(parts)[2]
             found == MatchingFunctions(file, functionName)
         IN  IF ~execCount.ok
             THEN ParseErr(file, "invalid execution count in FNDA")
             ELSE IF found = {}
             THEN ParseOK([file EXCEPT !.Functions =
                     Append(@, [Name |-> functionName, LineNumber |-> 0,
                                ExecutionCount |-> execCount.n])])
             ELSE LET i == CHOOSE j \in found : \A k \in found : j <= k
                  IN  ParseOK([file EXCEPT
                          !.Functions[i].ExecutionCount = execCount.n])

parseFNDA(parts, file) ==
    IF Len(parts) < 2 THEN ParseErr(file, "invalid FNDA format")
    ELSE LET execCount == Atoi(parts[1])
             functionName == SplitN2(parts)[2]
             found == MatchingFunctions(file, functionName)
         IN  IF ~execCount.ok
             THEN ParseErr(file, "invalid execution count in FNDA")
             ELSE IF found = {} THEN ParseOK(file)
             ELSE LET i == CHOOSE j \in found : \A k \in found : j <= k
                  IN  ParseOK([file EXCEPT
                          !.Functions[i].ExecutionCount = execCount.n])

parseDA(parts, file) ==
    IF Len(parts) < 2 THEN ParseErr(file, "invalid DA format")
    ELSE LET lineNumber == Atoi(parts[1])
             execCount == Atoi(parts[2])
             checksum == IF Len(parts) > 2 THEN parts[3] ELSE ""
         IN  IF ~lineNumber.ok THEN ParseErr(file, "invalid line number in DA")
             ELSE IF ~execCount.ok
             THEN ParseErr(file, "invalid execution count in DA")
             ELSE ParseOK([file EXCEPT !.Lines =
                     (lineNumber.n :> [LineNumber |-> lineNumber.n,
                                       ExecutionCount |-> execCount.n,
                                       Checksum |-> checksum]) @@ @])

parseLH(parts, file) ==
    LET count == AtoiData(parts)
    IN  IF ~count.ok THEN ParseErr(file, "invalid LH value")
        ELSE ParseOK([file EXCEPT !.CoveredLines = count.n])

\* A variant of parseLF that leaves TotalLines to the DA records.
parseLFCountingDA(parts, file) ==
    LET count == AtoiData(parts)
    IN  IF ~count.ok THEN ParseErr(file, "invalid LF value")
        ELSE ParseOK([file EXCEPT !.TotalLines = Cardinality(DOMAIN file.Lines)])

parseLF(parts, file) ==
    LET count == AtoiData(parts)
    IN  IF ~count.ok THEN ParseErr(file, "invalid LF value")
        ELSE ParseOK([file EXCEPT !.TotalLines = count.n])

\* p.addWarning(lineNumber, message)
addWarning(st, message) ==
    [st EXCEPT !.warnings = Append(@, [line |-> st.lineNumber, msg |-> message])]

\* The record types whose case needs an active source file.
FileRecords == {"FN", "FNDA", "DA", "LH", "LF"}

\* A variant in which BRDA has no case of its own and reaches the default.
IgnoredWithoutBRDA == {"FNF", "FNH", "BRF", "BRH"}

\* The record types whose case is a bare continue.
IgnoredRecords == {"FNF", "FNH", "BRF", "BRH", "BRDA"}

\* The per-record parser of a FileRecords line.
parseRecord(head, parts, file) ==
    CASE head = "FN" -> parseFN(parts, file)
      [] head = "FNDA" -> parseFNDA(parts, file)
      [] head = "DA" -> parseDA(parts, file)
      [] head = "LH" -> parseLH(parts, file)
      [] head = "LF" -> parseLF(parts, file)

\* A variant of the FileRecords cases that skips a malformed record without
\* a warning.
FileRecordCaseSilent(st, head, parts) ==
    IF IsNilFile(st.currentFile)
    THEN addWarning(st, "record without active source file")
    ELSE [st EXCEPT !.currentFile = parseRecord(head, parts, @).file]

\* case strings.HasPrefix(line, "XX:"): if currentFile == nil { warn;
\* continue }; if err := p.parseXX(...); err != nil { warn }.  The file is
\* passed by pointer: what parseXX wrote stays, error or not.
FileRecordCase(st, head, parts) ==
    IF IsNilFile(st.currentFile)
    THEN addWarning(st, "record without active source file")
    ELSE LET r == parseRecord(head, parts, st.currentFile)
             s == [st EXCEPT !.currentFile = r.file]
         IN  IF r.err # "nil" THEN addWarning(s, r.err) ELSE s

\* A variant of the terminator that keeps the entry a path already has.
EndOfRecordKeepingFirst(st) ==
    IF IsNilFile(st.currentFile) THEN st
    ELSE [st EXCEPT !.report.Files = @ @@ PutFile(<< >>, CalculateCoverage(st.currentFile)),
                    !.currentFile = NilFile]

\* case line == "end_of_record"
EndOfRecord(st) ==
    IF IsNilFile(st.currentFile) THEN st
    ELSE [st EXCEPT !.report.Files = PutFile(@, CalculateCoverage(st.currentFile)),
                    !.currentFile = NilFile]

\* One iteration of the scanner loop of Parse on the line raw.
LcovLineStep(st0, raw) ==
    LET st == [st0 EXCEPT !.lineNumber = @ + 1, !.last = raw]
        line == TrimSpace(raw)
    IN  IF line.head = "" /\ line.parts = <<"">> THEN st
        ELSE IF line.head = "TN" THEN [st EXCEPT !.report.TestName = line.parts]
        ELSE IF line.head = "SF"
            THEN [st EXCEPT !.currentFile = NewFileCoverage(line.parts)]
        ELSE IF line.head \in FileRecords
            THEN FileRecordCase(st, line.head, line.parts)
        ELSE IF line.head \in IgnoredRecords THEN st
        ELSE IF line.head = "" /\ line.parts = <<"end_of_record">>
            THEN EndOfRecord(st)
        ELSE addWarning(st, "unknown record type")

\* NewLCOVParser() and the locals of Parse before the first Scan.
NewLCOVParser ==
    [op |-> "Parse", pos |-> "scanning",
     report |-> [TestName |-> <<"">>, Files |-> << >>],
     currentFile |-> NilFile, lineNumber |-> 0, warnings |-> << >>,
     last |-> LcovLine(FALSE, "", <<"">>),
     ret |-> [op |-> "none"]]

LcovBlank == LcovLine(FALSE, "", <<"">>)

LcovLines ==
    { LcovBlank,
      LcovLine(FALSE, "TN", <<"t">>),
      LcovLine(FALSE, "SF", <<"f.go">>),
      LcovLine(FALSE, "SF", <<"g.go">>),
      LcovLine(FALSE, "DA", <<"1", "1">>),
      LcovLine(TRUE, "DA", <<"2", "0">>),
      LcovLine(FALSE, "DA", <<"1", "x">>),
      LcovLine(FALSE, "DA", <<"3">>),
      LcovLine(FALSE, "LH", <<"1">>),
      LcovLine(FALSE, "LH", <<"x">>),
      LcovLine(FALSE, "LF", <<"2">>),
      LcovLine(FALSE, "LF", <<"-1">>),
      LcovLine(FALSE, "LF", <<"">>),
      LcovLine(FALSE, "FN", <<"1", "a">>),
      LcovLine(FALSE, "FN", <<"x", "b">>),
      LcovLine(FALSE, "FNDA", <<"2", "a">>),
      LcovLine(FALSE, "FNDA", <<"1", "zz">>),
      LcovLine(FALSE, "FNDA", <<"x", "a">>),
      LcovLine(FALSE, "FNF", <<"1">>),
      LcovLine(FALSE, "FNH", <<"1">>),
      LcovLine(FALSE, "BRF", <<"2">>),
      LcovLine(FALSE, "BRH", <<"1">>),
      LcovLine(FALSE, "BRDA", <<"1", "0", "0", "1">>),
      LcovLine(FALSE, "", <<"end_of_record">>),
      LcovLine(FALSE, "", <<"garbage">>) }

InitLCOV ==
    /\ lcovRun = NewLCOVParser
    /\ selection = [op |-> "none"]
    /\ goRun = [op |-> "none"]
    /\ xmlRun = [op |-> "none"]
    /\ jsonRun = [op |-> "none"]
    /\ ciRun = [op |-> "none"]
    /\ instances = [op |-> "none"]
    /\ table = [op |-> "none"]
    /\ stream = << >>
    /\ detected = [op |-> "none"]
    /\ heap = << >>
    /\ reports = << >>
    /\ pc = "start"
    /\ call = NoCall
    /\ recomputed = {}
    /\ diffs = << >>
    /\ overall = [op |-> "none"]

LcovOthers ==
    UNCHANGED <<heap, reports, pc, call, recomputed, diffs, overall, stream,
                detected, selection, goRun,
                xmlRun, jsonRun, ciRun, instances, table>>

\* for scanner.Scan() { ... }: the reader yields one more line
LcovScan ==
    /\ lcovRun.op = "Parse" /\ lcovRun.pos = "scanning"
    /\ lcovRun.lineNumber < MaxLcovLines
    /\ \E raw \in LcovLines :
        /\ lcovRun' = LcovLineStep(lcovRun, raw)
        /\ Len(lcovRun'.warnings) <= MaxWarnings
    /\ LcovOthers

\* The reader is exhausted: return report, nil
LcovReturn ==
    /\ lcovRun.op = "Parse" /\ lcovRun.pos = "scanning"
    /\ lcovRun' = [lcovRun EXCEPT !.pos = "returned",
                       !.ret = [report |-> lcovRun.report, err |-> "nil"]]
    /\ LcovOthers

NextLCOV == LcovScan \/ LcovReturn

SpecLCOV == InitLCOV /\ [][NextLCOV]_vars

-----------------------------------------------------------------------------
(* Properties of the record-format parser                                  *)

\* A step of the scanner loop, and the trimmed line it processed.
LcovScanned == lcovRun.pos = "scanning" /\ lcovRun'.pos = "scanning"
                   /\ lcovRun'.lineNumber = lcovRun.lineNumber + 1
LcovLast == TrimSpace(lcovRun'.last)

IsNumeral(s) == s \in DOMAIN Numerals

\* A record of one of the five per-file types with a malformed field.
MalformedRecord(l) ==
    \/ l.head \in {"FN", "FNDA"} /\ (Len(l.parts) < 2 \/ ~IsNumeral(l.parts[1]))
    \/ l.head = "DA" /\ (\/ Len(l.parts) < 2
                         \/ ~IsNumeral(l.parts[1])
                         \/ ~IsNumeral(l.parts[2]))
    \/ l.head \in {"LH", "LF"} /\ (Len(l.parts) # 1 \/ ~IsNumeral(l.parts[1]))

\* The percentage CalculateCoverage leaves in a fresh FileCoverage.
Recomputed(fc) ==
    IF fc.TotalLines > 0
    THEN IsPercentage(fc.CoveragePct, fc.CoveredLines, fc.TotalLines)
    ELSE fc.CoveragePct = Zero

RECURSIVE LcovParse(_, _)
LcovParse(st, lines) ==
    IF lines = << >> THEN st
    ELSE LcovParse(LcovLineStep(st, Head(lines)), Tail(lines))

C12_Example ==
    LcovParse(NewLCOVParser,
        << LcovLine(FALSE, "TN", <<"t">>), LcovLine(FALSE, "SF", <<"f.go">>),
           LcovLine(FALSE, "DA", <<"1", "1">>), LcovLine(FALSE, "DA", <<"2", "0">>),
           LcovLine(FALSE, "LH", <<"1">>), LcovLine(FALSE, "LF", <<"2">>),
           LcovLine(FALSE, "", <<"end_of_record">>) >>)

\* C12: a record starts with TotalLines and CoveredLines 0; a valid LF sets
\* TotalLines and a valid LH sets CoveredLines to its value; no other line
\* of the record (DA lines included) changes either; end_of_record stores
\* the file with these two values and the percentage recomputed from them.
\* The literal input of the claim gives one file f.go with 2, 1 and 50.
C12_LinesFoundAndHit ==
    [][ LcovScanned =>
          LET l == LcovLast
              f == lcovRun.currentFile
              g == lcovRun'.currentFile
              open == ~IsNilFile(f)
          IN  /\ l.head = "SF" =>
                  g.FileName = l.parts /\ g.TotalLines = 0 /\ g.CoveredLines = 0
              /\ (open /\ l.head = "LF" /\ ~MalformedRecord(l)) =>
                  /\ g.TotalLines = Numerals[l.parts[1]]
                  /\ g.CoveredLines = f.CoveredLines
              /\ (open /\ l.head = "LH" /\ ~MalformedRecord(l)) =>
                  /\ g.CoveredLines = Numerals[l.parts[1]]
                  /\ g.TotalLines = f.TotalLines
              /\ (open /\ l.head = "" /\ l.parts = <<"end_of_record">>) =>
                  /\ IsNilFile(g)
                  /\ f.FileName \in DOMAIN lcovRun'.report.Files
                  /\ LET fc == lcovRun'.report.Files[f.FileName]
                     IN  /\ fc.TotalLines = f.TotalLines
                         /\ fc.CoveredLines = f.CoveredLines
                         /\ Recomputed(fc)
              /\ (/\ open
                  /\ l.head # "SF"
                  /\ ~(l.head = "LF" /\ ~MalformedRecord(l))
                  /\ ~(l.head = "LH" /\ ~MalformedRecord(l))
                  /\ ~(l.head = "" /\ l.parts = <<"end_of_record">>)) =>
                  /\ ~IsNilFile(g)
                  /\ g.TotalLines = f.TotalLines
                  /\ g.CoveredLines = f.CoveredLines
              /\ LET r == C12_Example.report.Files
                 IN  /\ DOMAIN r = {<<"f.go">>}
                     /\ r[<<"f.go">>].TotalLines = 2
                     /\ r[<<"f.go">>].CoveredLines = 1
                     /\ r[<<"f.go">>].CoveragePct = Rat(50, 1)
      ]_vars

\* A returned report whose file has one DA line with count 1 and no LH
\* record: TotalLines is the 2 of its LF record and CoveredLines is 0.
C12_Witness ==
    /\ lcovRun.op = "Parse"
    /\ lcovRun.pos = "returned"
    /\ DOMAIN lcovRun.ret.report.Files = {<<"f.go">>}
    /\ LET fc == lcovRun.ret.report.Files[<<"f.go">>]
       IN  /\ fc.TotalLines = 2
           /\ fc.CoveredLines = 0
           /\ fc.CoveragePct = Zero
           /\ DOMAIN fc.Lines = {1}
           /\ fc.Lines[1].ExecutionCount = 1

\* What the rest of the parse depends on, and the warnings a line adds.
LcovCore(st) == <<st.report, st.currentFile>>
LcovAdded(st, l) == Len(LcovLineStep(st, l).warnings) - Len(st.warnings)

BeforeFirstSF(st) == IsNilFile(st.currentFile) /\ st.report.Files = << >>

LcovIsBlank(l) == l.head = "" /\ l.parts = <<"">>

\* C14 as stated: every record other than TN read before the first SF adds
\* a warning and leaves the report unchanged.
C14_EveryRecordWarnsAsStated ==
    [][ (/\ LcovScanned
         /\ BeforeFirstSF(lcovRun)
         /\ ~LcovIsBlank(LcovLast)
         /\ LcovLast.head \notin {"TN", "SF"}) =>
            /\ Len(lcovRun'.warnings) = Len(lcovRun.warnings) + 1
            /\ LcovCore(lcovRun') = LcovCore(lcovRun)
      ]_vars

\* C14: before the first SF every record other than TN leaves the report
\* unchanged and parsing continues; an FN, FNDA, DA, LH or LF record and a
\* line of unknown type add one warning, while FNF, FNH, BRF, BRH, BRDA and
\* end_of_record add none.
C14_BeforeFirstSF ==
    [][ (/\ LcovScanned
         /\ BeforeFirstSF(lcovRun)
         /\ ~LcovIsBlank(LcovLast)
         /\ LcovLast.head \notin {"TN", "SF"}) =>
            LET silent == \/ LcovLast.head \in {"FNF", "FNH", "BRF", "BRH", "BRDA"}
                          \/ LcovLast.head = "" /\ LcovLast.parts = <<"end_of_record">>
            IN  /\ LcovCore(lcovRun') = LcovCore(lcovRun)
                /\ BeforeFirstSF(lcovRun')
                /\ silent => lcovRun'.warnings = lcovRun.warnings
                /\ ~silent => Len(lcovRun'.warnings) = Len(lcovRun.warnings) + 1
      ]_vars

\* A BRDA line read before any SF, then a DA line: only the DA line warned.
C14_Witness ==
    /\ lcovRun.op = "Parse"
    /\ lcovRun.lineNumber = 2
    /\ TrimSpace(lcovRun.last).head = "DA"
    /\ BeforeFirstSF(lcovRun)
    /\ Len(lcovRun.warnings) = 1
    /\ lcovRun.warnings[1].line = 2

\* C15: a well-formed FNDA record in an open record sets the execution
\* count of the first function of that name and changes nothing else; when
\* no function has the name it adds no warning and leaves the file, its
\* functions, lines and counts, and the report unchanged.
C15_FunctionData ==
    [][ (/\ LcovScanned
         /\ ~IsNilFile(lcovRun.currentFile)
         /\ LcovLast.head = "FNDA"
         /\ ~MalformedRecord(LcovLast)) =>
            LET f == lcovRun.currentFile
                g == lcovRun'.currentFile
                name == Tail(LcovLast.parts)
                hits == {i \in DOMAIN f.Functions : f.Functions[i].Name = name}
            IN  /\ lcovRun'.warnings = lcovRun.warnings
                /\ lcovRun'.report = lcovRun.report
                /\ hits = {} => g = f
                /\ hits # {} =>
                    \E i \in hits :
                        /\ \A j \in hits : i <= j
                        /\ g = [f EXCEPT !.Functions[i].ExecutionCount =
                                   Numerals[LcovLast.parts[1]]]
      ]_vars

\* FNDA:2,a set the count of function a, and FNDA:1,zz after it changed
\* nothing and warned nothing.
C15_Witness ==
    /\ lcovRun.op = "Parse"
    /\ lcovRun.last = LcovLine(FALSE, "FNDA", <<"1", "zz">>)
    /\ ~IsNilFile(lcovRun.currentFile)
    /\ lcovRun.currentFile.Functions =
           <<[Name |-> <<"a">>, LineNumber |-> 1, ExecutionCount |-> 2]>>
    /\ lcovRun.warnings = << >>

-----------------------------------------------------------------------------
(* pkg/parser: the range-format (Go cover profile) parser                  *)
(*                                                                         *)
(* A line is its surrounding whitespace, whether it holds a colon, the     *)
(* text before the first colon (file), and the whitespace-separated fields *)
(* of the rest.  A field is the sequence of its comma-separated pieces,    *)
(* each the sequence of its dot-separated pieces, so that "1.1,2.5" is     *)
(* <<<<"1", "1">>, <<"2", "5">>>> and "3" is <<<<"3">>>>.                  *)

MaxEntries == 3

GoLine(pad, colon, file, fields) ==
    [pad |-> pad, colon |-> colon, file |-> file, fields |-> fields]

\* A field without comma or dot, and the range field a.b,c.d
Word(s) == <<<<s>>>>
Range(a, b, c, d) == <<<<a, b>>, <<c, d>>>>

IsWord(f) == Len(f) = 1 /\ Len(f[1]) = 1

\* strconv.Atoi of a whole field
AtoiField(f) == IF IsWord(f) THEN Atoi(f[1][1]) ELSE [ok |-> FALSE, n |-> 0]

\* line == ""
IsGoBlank(l) == ~l.pad /\ ~l.colon /\ l.file = "" /\ l.fields = << >>

\* strings.HasPrefix(firstLine, "mode:")
HasModePrefix(l) == ~l.pad /\ l.colon /\ l.file = "mode"

\* strings.TrimSpace(strings.TrimPrefix(firstLine, "mode:")); "?" stands
\* for a text with inner whitespace, comma or dot.
ModeValue(l) ==
    IF l.fields = << >> THEN ""
    ELSE IF Len(l.fields) = 1 /\ IsWord(l.fields[1]) THEN l.fields[1][1][1]
    ELSE "?"

EntryErr(msg) ==
    [err |-> msg, filename |-> "", startLine |-> 0, endLine |-> 0, execCount |-> 0]

\* parseCoverageEntry up to the last strconv.Atoi: the error, or the
\* filename, the line range and the execution count
EntryFields(l) ==
    IF ~l.colon THEN EntryErr("invalid coverage entry format")
    ELSE IF Len(l.fields) # 3 THEN EntryErr("invalid coverage data format")
    ELSE LET rangeParts == l.fields[1]
         IN  IF Len(rangeParts) # 2 THEN EntryErr("invalid line range format")
             ELSE IF Len(rangeParts[1]) # 2
                 THEN EntryErr("invalid start position format")
             ELSE IF Len(rangeParts[2]) # 2
                 THEN EntryErr("invalid end position format")
             ELSE LET startLine == Atoi(rangeParts[1][1])
                      endLine == Atoi(rangeParts[2][1])
                      numStatements == AtoiField(l.fields[2])
                      execCount == AtoiField(l.fields[3])
                  IN  IF ~startLine.ok THEN EntryErr("invalid start line number")
                      ELSE IF ~endLine.ok THEN EntryErr("invalid end line number")
                      ELSE IF ~numStatements.ok
                          THEN EntryErr("invalid number of statements")
                      ELSE IF ~execCount.ok
                          THEN EntryErr("invalid execution count")
                      ELSE [err |-> "nil", filename |-> l.file,
                            startLine |-> startLine.n, endLine |-> endLine.n,
                            execCount |-> execCount.n]

\* A variant of the update of an existing line that keeps the larger count.
ExistingLineMax(mode, existing, execCount) ==
    IF mode = "count" \/ mode = "atomic"
    THEN [existing EXCEPT !.ExecutionCount =
             IF execCount > @ THEN execCount ELSE @]
    ELSE IF execCount > 0 THEN [existing EXCEPT !.ExecutionCount = 1]
    ELSE existing

\* if existing, exists := file.Lines[lineNo]; exists { ... }
ExistingLine(mode, existing, execCount) ==
    IF mode = "count" \/ mode = "atomic"
    THEN [existing EXCEPT !.ExecutionCount = @ + execCount]
    ELSE IF execCount > 0 THEN [existing EXCEPT !.ExecutionCount = 1]
    ELSE existing

\* for lineNo := startLine; lineNo <= endLine; lineNo++ { ... }
AddRange(mode, lines, startLine, endLine, execCount) ==
    [lineNo \in DOMAIN lines \cup (startLine..endLine) |->
        IF lineNo \notin startLine..endLine THEN lines[lineNo]
        ELSE IF lineNo \in DOMAIN lines
            THEN ExistingLine(mode, lines[lineNo], execCount)
        ELSE [LineNumber |-> lineNo, ExecutionCount |-> execCount,
              Checksum |-> ""]]

CoveredIn(lines) == {n \in DOMAIN lines : lines[n].ExecutionCount > 0}

\* A variant of the recount that adds the range's lines to the counts the
\* file already has.
RecountAdding(file, lines) ==
    [file EXCEPT !.Lines = lines,
                 !.TotalLines = @ + Cardinality(DOMAIN lines),
                 !.CoveredLines = @ + Cardinality(CoveredIn(lines))]

\* file.TotalLines = len(file.Lines); file.CoveredLines = coveredCount.
\* The loop before them increments CoveredLines only for a line whose
\* LineNumber is no key of the map; there is none, and the counter is
\* overwritten in any case.
Recount(file, lines) ==
    [file EXCEPT !.Lines = lines,
                 !.TotalLines = Cardinality(DOMAIN lines),
                 !.CoveredLines = Cardinality(CoveredIn(lines))]

\* report.GetFile(filename), or the new FileCoverage added to the report
GetOrCreate(files, filename) ==
    IF filename \in DOMAIN files THEN files[filename]
    ELSE NewFileCoverage(filename)

\* A variant that adds the file to the report before the fields are parsed.
parseCoverageEntryCreatingFirst(mode, files, l) ==
    LET e == EntryFields(l)
    IN  IF e.err # "nil"
        THEN [err |-> e.err,
              files |-> IF l.colon THEN PutFile(files, GetOrCreate(files, l.file))
                        ELSE files]
        ELSE LET file == GetOrCreate(files, e.filename)
                 lines == AddRange(mode, file.Lines, e.startLine, e.endLine,
                                   e.execCount)
             IN  [err |-> "nil", files |-> PutFile(files, Recount(file, lines))]

parseCoverageEntry(mode, files, l) ==
    LET e == EntryFields(l)
    IN  IF e.err # "nil" THEN [err |-> e.err, files |-> files]
        ELSE LET file == GetOrCreate(files, e.filename)
                 lines == AddRange(mode, file.Lines, e.startLine, e.endLine,
                                   e.execCount)
             IN  [err |-> "nil", files |-> PutFile(files, Recount(file, lines))]

KnownModes == {"set", "count", "atomic"}

NilReport == [nil |-> TRUE]

\* NewGoCoverParser() and the locals of Parse before the first Scan.
NewGoCoverParser ==
    [op |-> "Parse", pos |-> "start", mode |-> "",
     report |-> [TestName |-> <<"">>, Files |-> << >>],
     lineNumber |-> 0, warnings |-> << >>,
     ret |-> [op |-> "none"]]

\* A variant that looks for the mode declaration on the first non-empty line.
GoFirstLineSkippingBlank(st0, raw) ==
    LET st == [st0 EXCEPT !.lineNumber = @ + 1]
        firstLine == TrimSpace(raw)
    IN  IF IsGoBlank(firstLine) THEN st
        ELSE IF ~HasModePrefix(firstLine)
        THEN [st EXCEPT !.pos = "returned",
                  !.ret = [report |-> NilReport,
                           err |-> "missing mode declaration on line 1"]]
        ELSE LET m == ModeValue(firstLine)
                 s == [st EXCEPT !.pos = "scanning", !.mode = m]
             IN  IF m \notin KnownModes
                 THEN addWarning(s, "unknown coverage mode")
                 ELSE s

\* Parse from the first successful Scan to the entry loop
GoFirstLineStep(st0, raw) ==
    LET st == [st0 EXCEPT !.lineNumber = @ + 1]
        firstLine == TrimSpace(raw)
    IN  IF ~HasModePrefix(firstLine)
        THEN [st EXCEPT !.pos = "returned",
                  !.ret = [report |-> NilReport,
                           err |-> "missing mode declaration on line 1"]]
        ELSE LET m == ModeValue(firstLine)
                 s == [st EXCEPT !.pos = "scanning", !.mode = m]
             IN  IF m \notin KnownModes
                 THEN addWarning(s, "unknown coverage mode")
                 ELSE s

\* One iteration of the entry loop of Parse on the line raw.  The report is
\* passed by pointer: what parseCoverageEntry wrote stays, error or not.
GoLineStep(st0, raw) ==
    LET st == [st0 EXCEPT !.lineNumber = @ + 1]
        line == TrimSpace(raw)
    IN  IF IsGoBlank(line) THEN st
        ELSE LET r == parseCoverageEntry(st.mode, st.report.Files, line)
                 s == [st EXCEPT !.report.Files = r.files]
             IN  IF r.err # "nil" THEN addWarning(s, r.err) ELSE s

\* for _, file := range report.Files { file.CalculateCoverage() }
CalculateAll(files) == [f \in DOMAIN files |-> CalculateCoverage(files[f])]

GoBlank == GoLine(FALSE, FALSE, "", << >>)

Entry(file, a, c, count) ==
    GoLine(FALSE, TRUE, file, <<Range(a, "1", c, "5"), Word("1"), Word(count)>>)

ModeLine(pad, fields) == GoLine(pad, TRUE, "mode", fields)

GoFirstLines ==
    { ModeLine(FALSE, <<Word("set")>>),
      ModeLine(FALSE, <<Word("count")>>),
      ModeLine(TRUE, <<Word("atomic")>>),
      ModeLine(FALSE, <<Word("bogus")>>),
      ModeLine(FALSE, << >>),
      GoBlank,
      GoLine(FALSE, FALSE, "garbage", << >>),
      Entry("f.go", "1", "1", "3") }

GoEntryLines ==
    { GoBlank,
      ModeLine(FALSE, <<Word("set")>>),
      Entry("f.go", "1", "1", "0"),
      Entry("f.go", "1", "1", "2"),
      Entry("f.go", "1", "1", "3"),
      Entry("f.go", "1", "2", "0"),
      [Entry("f.go", "1", "2", "3") EXCEPT !.pad = TRUE],
      Entry("f.go", "2", "1", "2"),
      Entry("g.go", "2", "2", "1"),
      Entry("g.go", "1", "1", "x"),
      GoLine(FALSE, TRUE, "f.go", <<Range("1", "1", "1", "5"), Word("1")>>),
      GoLine(FALSE, FALSE, "garbage", << >>) }

RECURSIVE SeqsUpTo(_, _)
SeqsUpTo(S, n) ==
    IF n = 0 THEN { << >> }
    ELSE LET shorter == SeqsUpTo(S, n - 1)
         IN  shorter \cup { Append(q, x) : q \in shorter, x \in S }

\* The empty stream, and a first line followed by up to MaxEntries lines.
GoStreams ==
    { << >> } \cup
    { <<first>> \o rest : first \in GoFirstLines,
                          rest \in SeqsUpTo(GoEntryLines, MaxEntries) }

InitGoCover ==
    /\ stream \in GoStreams
    /\ goRun = NewGoCoverParser
    /\ xmlRun = [op |-> "none"]
    /\ jsonRun = [op |-> "none"]
    /\ ciRun = [op |-> "none"]
    /\ instances = [op |-> "none"]
    /\ table = [op |-> "none"]
    /\ lcovRun = [op |-> "none"]
    /\ selection = [op |-> "none"]
    /\ detected = [op |-> "none"]
    /\ heap = << >>
    /\ reports = << >>
    /\ pc = "start"
    /\ call = NoCall
    /\ recomputed = {}
    /\ diffs = << >>
    /\ overall = [op |-> "none"]

GoOthers ==
    UNCHANGED <<heap, reports, pc, call, recomputed, diffs, overall, stream,
                detected, selection, lcovRun,
                xmlRun, jsonRun, ciRun, instances, table>>

\* if !scanner.Scan() { return nil, fmt.Errorf("empty coverage file") }
GoEmptyFile ==
    /\ goRun.op = "Parse" /\ goRun.pos = "start"
    /\ goRun.lineNumber = Len(stream)
    /\ goRun' = [goRun EXCEPT !.pos = "returned",
                     !.ret = [report |-> NilReport, err |-> "empty coverage file"]]
    /\ GoOthers

\* The first line: the mode declaration or the error return
GoFirstLine ==
    /\ goRun.op = "Parse" /\ goRun.pos = "start"
    /\ goRun.lineNumber < Len(stream)
    /\ goRun' = GoFirstLineStep(goRun, stream[goRun.lineNumber + 1])
    /\ GoOthers

\* for scanner.Scan() { ... }: the next line of the stream
GoScan ==
    /\ goRun.op = "Parse" /\ goRun.pos = "scanning"
    /\ goRun.lineNumber < Len(stream)
    /\ goRun' = GoLineStep(goRun, stream[goRun.lineNumber + 1])
    /\ GoOthers

\* The stream is exhausted: recompute every percentage, return report, nil
GoReturn ==
    /\ goRun.op = "Parse" /\ goRun.pos = "scanning"
    /\ goRun.lineNumber = Len(stream)
    /\ LET files == CalculateAll(goRun.report.Files)
       IN  goRun' = [goRun EXCEPT !.pos = "returned",
                         !.report.Files = files,
                         !.ret = [report |-> [goRun.report EXCEPT !.Files = files],
                                  err |-> "nil"]]
    /\ GoOthers

NextGoCover == GoEmptyFile \/ GoFirstLine \/ GoScan \/ GoReturn

SpecGoCover == InitGoCover /\ [][NextGoCover]_vars

-----------------------------------------------------------------------------
(* Properties of the range-format parser                                   *)

GoReturned == goRun.op = "Parse" /\ goRun.pos = "returned"
GoReturnedReport == GoReturned /\ goRun.ret.err = "nil"

\* A line that begins with "mode:".
IsModeDeclaration(l) == l.colon /\ l.file = "mode"

\* A line of the shape file:a.b,c.d n count with integers a, c, n, count.
WellFormedEntry(l) ==
    /\ l.colon
    /\ Len(l.fields) = 3
    /\ Len(l.fields[1]) = 2
    /\ Len(l.fields[1][1]) = 2 /\ Len(l.fields[1][2]) = 2
    /\ IsNumeral(l.fields[1][1][1]) /\ IsNumeral(l.fields[1][2][1])
    /\ IsWord(l.fields[2]) /\ IsNumeral(l.fields[2][1][1])
    /\ IsWord(l.fields[3]) /\ IsNumeral(l.fields[3][1][1])

StartLine(l) == Numerals[l.fields[1][1][1]]
EndLine(l) == Numerals[l.fields[1][2][1]]
ExecCount(l) == Numerals[l.fields[3][1][1]]

\* The positions of the entry lines of the stream for file whose range
\* contains line n.
Covering(file, n) ==
    {i \in 2..Len(stream) :
        LET l == TrimSpace(stream[i])
        IN  /\ WellFormedEntry(l)
            /\ l.file = file
            /\ StartLine(l) <= n /\ n <= EndLine(l)}

RECURSIVE SumExecCount(_)
SumExecCount(S) ==
    IF S = {} THEN 0
    ELSE LET i == CHOOSE j \in S : TRUE
         IN  ExecCount(TrimSpace(stream[i])) + SumExecCount(S \ {i})

\* The files and line numbers the entry lines of the stream name.
EntryFiles == {stream[i].file : i \in 2..Len(stream)}
EntryLineNumbers == (-1)..3

\* The lines file has in the report: those some entry line covers.
RecordsCovered(files) ==
    \A file \in EntryFiles, n \in EntryLineNumbers :
        (Covering(file, n) # {}) =
            (file \in DOMAIN files /\ n \in DOMAIN files[file].Lines)

GoNonEmpty == {i \in DOMAIN stream : ~IsGoBlank(TrimSpace(stream[i]))}

C17_CountModeSums ==
    (GoReturnedReport /\ goRun.mode \in {"count", "atomic"}) =>
        LET files == goRun.ret.report.Files
        IN  /\ RecordsCovered(files)
            /\ \A file \in DOMAIN files : \A n \in DOMAIN files[file].Lines :
                   files[file].Lines[n].ExecutionCount =
                       SumExecCount(Covering(file, n))

\* Entries with counts 3 and 2 over line 1 of f.go, in that order, give 5.
C17_Witness ==
    /\ GoReturnedReport
    /\ goRun.mode = "count"
    /\ Len(stream) = 3
    /\ stream[2] = Entry("f.go", "1", "1", "3")
    /\ stream[3] = Entry("f.go", "1", "1", "2")
    /\ goRun.ret.report.Files["f.go"].Lines[1].ExecutionCount = 5

\* C18: in set mode the report Parse returns gives a line the count 1 when
\* some entry covering it has execCount > 0 and 0 when none has.
C18_SetModeIsOr ==
    (GoReturnedReport /\ goRun.mode = "set") =>
        LET files == goRun.ret.report.Files
        IN  \A file \in DOMAIN files : \A n \in DOMAIN files[file].Lines :
                files[file].Lines[n].ExecutionCount =
                    IF \E i \in Covering(file, n) :
                           ExecCount(TrimSpace(stream[i])) > 0
                    THEN 1 ELSE 0

\* C19: once the mode line is read, after every line and in the returned
\* report, TotalLines of each file is the number of line numbers in its
\* Lines map and CoveredLines the number of those with a count > 0; the
\* returned report has the percentage recomputed from the two.
C19_CountsMatchLines ==
    (goRun.op = "Parse" /\ goRun.pos \in {"scanning", "returned"}) =>
        \A file \in DOMAIN goRun.report.Files :
            LET fc == goRun.report.Files[file]
            IN  /\ fc.FileName = file
                /\ fc.TotalLines = Cardinality(DOMAIN fc.Lines)
                /\ fc.CoveredLines =
                       Cardinality({n \in DOMAIN fc.Lines :
                                       fc.Lines[n].ExecutionCount > 0})
                /\ GoReturnedReport =>
                       /\ goRun.ret.report.Files[file] = fc
                       /\ Recomputed(fc)

\* f.go with two lines of which a second entry covered one: 2, 1 and 50.
C19_Witness ==
    /\ GoReturnedReport
    /\ "f.go" \in DOMAIN goRun.ret.report.Files
    /\ LET fc == goRun.ret.report.Files["f.go"]
       IN  /\ DOMAIN fc.Lines = {1, 2}
           /\ fc.Lines[2].ExecutionCount = 0
           /\ fc.TotalLines = 2
           /\ fc.CoveredLines = 1
           /\ fc.CoveragePct = Rat(50, 1)

\* An iteration of the entry loop, and the trimmed line it processed.
GoScanned == goRun.op = "Parse" /\ goRun.pos = "scanning"
                 /\ goRun'.lineNumber = goRun.lineNumber + 1
GoLast == TrimSpace(stream[goRun'.lineNumber])

\* C20: a malformed entry line adds one warning and leaves the report
\* unchanged, and the loop goes on so that every later line acts as it
\* would have without it; a well-formed entry adds no warning and its file
\* is in the report afterwards.
C20_MalformedEntrySkipped ==
    [][ (GoScanned /\ ~IsGoBlank(GoLast)) =>
          /\ goRun'.pos = "scanning" /\ goRun'.mode = goRun.mode
          /\ ~WellFormedEntry(GoLast) =>
              /\ goRun'.report = goRun.report
              /\ Len(goRun'.warnings) = Len(goRun.warnings) + 1
              /\ SubSeq(goRun'.warnings, 1, Len(goRun.warnings)) = goRun.warnings
              /\ \A l \in GoEntryLines :
                     GoLineStep(goRun', l).report = GoLineStep(goRun, l).report
          /\ WellFormedEntry(GoLast) =>
              /\ goRun'.warnings = goRun.warnings
              /\ GoLast.file \in DOMAIN goRun'.report.Files
              /\ \A file \in DOMAIN goRun'.report.Files :
                     file \in DOMAIN goRun.report.Files \/ file = GoLast.file
      ]_vars

\* A malformed entry naming g.go on line 2, then a well-formed entry that
\* creates f.go: one warning, and g.go is not in the report.
C20_Witness ==
    /\ GoReturnedReport
    /\ Len(stream) = 3
    /\ stream[2] = Entry("g.go", "1", "1", "x")
    /\ Len(goRun.warnings) = 1
    /\ goRun.warnings[1].line = 2
    /\ DOMAIN goRun.ret.report.Files = {"f.go"}

-----------------------------------------------------------------------------
(* pkg/parser/pycover_xml.go: the Cobertura-style XML parser               *)
(*                                                                         *)
(* A document is modelled by what xml.Unmarshal decodes from it: whether    *)
(* it is well-formed, and its class elements in document order, each with   *)
(* its filename attribute and its line elements (number, hits).  A path is  *)
(* the sequence of its "/"-separated segments, so "./a.py" is               *)
(* <<".", "a.py">>.                                                        *)

MaxClasses == 2
MaxXmlLines == 2

XmlLine(number, hits) == [Number |-> number, Hits |-> hits]

Class(filename, lines) == [Filename |-> filename, Lines |-> lines]

\* strings.TrimPrefix(filename, "./")
TrimPrefix(path) ==
    IF Len(path) > 1 /\ path[1] = "." THEN Tail(path) ELSE path

\* p.warnings = append(p.warnings, message), the message kept by its parts
xmlAddWarning(warnings, filename, line) ==
    Append(warnings, [msg |-> "negative hit count", file |-> filename,
                      line |-> line.Number, hits |-> line.Hits])

\* The "Process lines" loop of parseClass: the line map and the warnings
\* after the line elements of lines, in document order.
RECURSIVE ProcessLines(_, _, _, _)
ProcessLines(filename, lines, lineMap, warnings) ==
    IF lines = << >> THEN [Lines |-> lineMap, warnings |-> warnings]
    ELSE LET line == Head(lines)
             w == IF line.Hits < 0
                  THEN xmlAddWarning(warnings, filename, line)
                  ELSE warnings
             m == (line.Number :> [LineNumber |-> line.Number,
                                   ExecutionCount |-> line.Hits]) @@ lineMap
         IN ProcessLines(filename, Tail(lines), m, w)

\* A variant of the counting in which a line is covered when it was hit or
\* reported with a negative count.
CoveredCountNonZero(lineMap) ==
    Cardinality({n \in DOMAIN lineMap : lineMap[n].ExecutionCount # 0})

\* the coveredCount loop of parseClass
CoveredCount(lineMap) ==
    Cardinality({n \in DOMAIN lineMap : lineMap[n].ExecutionCount > 0})

\* parseClass(class, report); it has no failing path
parseClass(st, class) ==
    LET filename == TrimPrefix(class.Filename)
        r == ProcessLines(filename, class.Lines, << >>, st.warnings)
        file == [NewFileCoverage(filename) EXCEPT
                    !.Lines = r.Lines,
                    !.TotalLines = Cardinality(DOMAIN r.Lines),
                    !.CoveredLines = CoveredCount(r.Lines)]
    IN [st EXCEPT !.report.Files = PutFile(@, file),
                  !.warnings = r.warnings,
                  !.classes = @ + 1,
                  !.last = class]

\* NewPyCoverXMLParser() and the locals of Parse before xml.Unmarshal.
NewPyCoverXMLParser ==
    [op |-> "Parse", pos |-> "start",
     report |-> [TestName |-> <<"">>, Files |-> << >>],
     warnings |-> << >>, classes |-> 0,
     last |-> Class(<<"">>, << >>),
     ret |-> [op |-> "none"]]

XmlLines == { XmlLine(1, 1), XmlLine(1, 0), XmlLine(2, -1) }

XmlFilenames == { <<"a.py">>, <<".", "a.py">>, <<".", ".", "b.py">> }

XmlClasses ==
    { Class(f, l) : f \in XmlFilenames, l \in SeqsUpTo(XmlLines, MaxXmlLines) }

InitXML ==
    /\ xmlRun = NewPyCoverXMLParser
    /\ jsonRun = [op |-> "none"]
    /\ ciRun = [op |-> "none"]
    /\ instances = [op |-> "none"]
    /\ table = [op |-> "none"]
    /\ lcovRun = [op |-> "none"]
    /\ goRun = [op |-> "none"]
    /\ selection = [op |-> "none"]
    /\ detected = [op |-> "none"]
    /\ stream = << >>
    /\ heap = << >>
    /\ reports = << >>
    /\ pc = "start"
    /\ call = NoCall
    /\ recomputed = {}
    /\ diffs = << >>
    /\ overall = [op |-> "none"]

XmlOthers ==
    UNCHANGED <<heap, reports, pc, call, recomputed, diffs, overall, stream,
                detected, selection, lcovRun, goRun,
                jsonRun, ciRun, instances, table>>

\* xml.Unmarshal fails: return nil, "failed to parse XML"
XmlMalformed ==
    /\ xmlRun.op = "Parse" /\ xmlRun.pos = "start"
    /\ xmlRun' = [xmlRun EXCEPT !.pos = "returned",
                      !.ret = [report |-> NilReport, err |-> "failed to parse XML"]]
    /\ XmlOthers

\* xml.Unmarshal succeeds
XmlUnmarshal ==
    /\ xmlRun.op = "Parse" /\ xmlRun.pos = "start"
    /\ xmlRun' = [xmlRun EXCEPT !.pos = "classes"]
    /\ XmlOthers

\* One iteration of the package/class loops, on the next class element.
XmlClass ==
    /\ xmlRun.op = "Parse" /\ xmlRun.pos = "classes"
    /\ xmlRun.classes < MaxClasses
    /\ \E class \in XmlClasses : xmlRun' = parseClass(xmlRun, class)
    /\ XmlOthers

\* No class element is left: CalculateCoverage on every file, return report, nil
XmlReturn ==
    /\ xmlRun.op = "Parse" /\ xmlRun.pos = "classes"
    /\ LET files == CalculateAll(xmlRun.report.Files)
       IN xmlRun' = [xmlRun EXCEPT !.pos = "returned",
                         !.report.Files = files,
                         !.ret = [report |-> [xmlRun.report EXCEPT !.Files = files],
                                  err |-> "nil"]]
    /\ XmlOthers

NextXML == XmlMalformed \/ XmlUnmarshal \/ XmlClass \/ XmlReturn

SpecXML == InitXML /\ [][NextXML]_vars

-----------------------------------------------------------------------------
(* Properties of the XML parser                                            *)

\* An iteration of the class loop; xmlRun'.last is the class it processed.
XmlClassDone == xmlRun.op = "Parse" /\ xmlRun.pos = "classes"
                    /\ xmlRun'.pos = "classes"

XmlProduced == xmlRun'.report.Files[TrimPrefix(xmlRun'.last.Filename)]

XmlNumbers(lines) == {lines[i].Number : i \in DOMAIN lines}

\* The last line element of lines that carries the number n.
XmlLastOf(lines, n) ==
    lines[CHOOSE i \in DOMAIN lines :
              /\ lines[i].Number = n
              /\ \A j \in DOMAIN lines : lines[j].Number = n => j <= i]

XmlNegative(lines) == {i \in DOMAIN lines : lines[i].Hits < 0}

\* C21 as stated: every class element produces a file whose TotalLines is the
\* number of line elements of the class and whose CoveredLines is the number
\* of line elements with hits > 0.
C21_CountsLineElements ==
    [][XmlClassDone =>
        LET lines == xmlRun'.last.Lines
        IN /\ XmlProduced.TotalLines = Len(lines)
           /\ XmlProduced.CoveredLines =
                  Cardinality({i \in DOMAIN lines : lines[i].Hits > 0})]_vars

\* C21, amended: every class element produces a file under its filename
\* without one leading "./"; TotalLines is the number of distinct line numbers
\* of the class and CoveredLines the number of those whose last line element
\* has hits > 0 (they are the counts of line elements when no number repeats);
\* the line map holds for each number the hits of its last line element,
\* negative ones included; every line element with negative hits adds one
\* warning and nothing else does; and a well-formed document is returned
\* without an error, with the file of every class processed.
C21_CountsLineNumbers ==
    /\ [][XmlClassDone =>
            LET lines == xmlRun'.last.Lines
                fc == XmlProduced
            IN /\ TrimPrefix(xmlRun'.last.Filename) \in DOMAIN xmlRun'.report.Files
               /\ fc.TotalLines = Cardinality(XmlNumbers(lines))
               /\ fc.CoveredLines =
                      Cardinality({n \in XmlNumbers(lines) :
                                       XmlLastOf(lines, n).Hits > 0})
               /\ (Cardinality(XmlNumbers(lines)) = Len(lines) =>
                      /\ fc.TotalLines = Len(lines)
                      /\ fc.CoveredLines =
                             Cardinality({i \in DOMAIN lines : lines[i].Hits > 0}))
               /\ DOMAIN fc.Lines = XmlNumbers(lines)
               /\ \A n \in XmlNumbers(lines) :
                      fc.Lines[n] = [LineNumber |-> n,
                                     ExecutionCount |-> XmlLastOf(lines, n).Hits]
               /\ Len(xmlRun'.warnings) =
                      Len(xmlRun.warnings) + Cardinality(XmlNegative(lines))
               /\ SubSeq(xmlRun'.warnings, 1, Len(xmlRun.warnings)) = xmlRun.warnings
               /\ \A f \in DOMAIN xmlRun.report.Files :
                      f \in DOMAIN xmlRun'.report.Files]_vars
    /\ [][(xmlRun.op = "Parse" /\ xmlRun.pos = "classes"
              /\ xmlRun'.pos = "returned") =>
            /\ xmlRun'.ret.err = "nil"
            /\ xmlRun'.warnings = xmlRun.warnings
            /\ DOMAIN xmlRun'.ret.report.Files = DOMAIN xmlRun.report.Files
            /\ \A f \in DOMAIN xmlRun.report.Files :
                   LET a == xmlRun.report.Files[f]
                       b == xmlRun'.ret.report.Files[f]
                   IN /\ b.TotalLines = a.TotalLines
                      /\ b.CoveredLines = a.CoveredLines
                      /\ b.Lines = a.Lines]_vars

\* A class with lines 1 (hit) and 2 (hits -1) was parsed and returned: two
\* lines, one covered, the negative count stored, one warning, no error.
C21_Witness ==
    /\ xmlRun.op = "Parse" /\ xmlRun.pos = "returned"
    /\ xmlRun.ret.err = "nil"
    /\ xmlRun.last = Class(<<".", "a.py">>, <<XmlLine(1, 1), XmlLine(2, -1)>>)
    /\ <<"a.py">> \in DOMAIN xmlRun.ret.report.Files
    /\ LET fc == xmlRun.ret.report.Files[<<"a.py">>]
       IN /\ fc.TotalLines = 2
          /\ fc.CoveredLines = 1
          /\ fc.Lines[2].ExecutionCount = -1
    /\ Len(xmlRun.warnings) = 1

-----------------------------------------------------------------------------
(* unnamed/part_011: the coverage.py JSON parser                            *)
(*                                                                         *)
(* A document is modelled by its JSON structure: whether its text is valid  *)
(* JSON, and the members of its "files" object, each a key (a path) with a  *)
(* value.  A value holds executed_lines, missing_lines and, when the member *)
(* is there, summary as <<covered_lines, num_statements>>; typed is FALSE   *)
(* for a value that is valid JSON of another shape than FileCoverageJSON,   *)
(* such as "executed_lines": "all".                                        *)

MaxJsonFiles == 2

JsonEntry(executed, missing, summary) ==
    [typed |-> TRUE, executed_lines |-> executed, missing_lines |-> missing,
     summary |-> summary]

JsonMistyped ==
    [typed |-> FALSE, executed_lines |-> << >>, missing_lines |-> << >>,
     summary |-> << >>]

\* What json.Unmarshal leaves in a FileCoverageJSON: a missing summary leaves
\* the zero SummaryJSON.
DecodeEntry(e) ==
    [ExecutedLines |-> e.executed_lines, MissingLines |-> e.missing_lines,
     Summary |-> IF e.summary = << >>
                 THEN [CoveredLines |-> 0, NumStatements |-> 0]
                 ELSE [CoveredLines |-> e.summary[1],
                       NumStatements |-> e.summary[2]]]

\* json.Unmarshal(data, &coverageJSON): a syntax error, or a value that does
\* not fit its Go type, makes it return an error.
UnmarshalFails(doc) ==
    \/ ~doc.wellFormed
    \/ \E k \in DOMAIN doc.files : ~doc.files[k].typed

\* the "Process executed lines" loop of parseFile
RECURSIVE ExecutedLines(_, _)
ExecutedLines(lines, lineMap) ==
    IF lines = << >> THEN lineMap
    ELSE ExecutedLines(Tail(lines),
             (Head(lines) :> [LineNumber |-> Head(lines), ExecutionCount |-> 1])
                 @@ lineMap)

\* A variant in which a missing line replaces an executed one.
RECURSIVE MissingLinesOverwriting(_, _)
MissingLinesOverwriting(lines, lineMap) ==
    IF lines = << >> THEN lineMap
    ELSE MissingLinesOverwriting(Tail(lines),
             (Head(lines) :> [LineNumber |-> Head(lines), ExecutionCount |-> 0])
                 @@ lineMap)

\* the "Process missing lines" loop of parseFile
RECURSIVE MissingLines(_, _)
MissingLines(lines, lineMap) ==
    IF lines = << >> THEN lineMap
    ELSE MissingLines(Tail(lines),
             IF Head(lines) \in DOMAIN lineMap THEN lineMap
             ELSE (Head(lines) :> [LineNumber |-> Head(lines),
                                   ExecutionCount |-> 0]) @@ lineMap)

\* p.warnings = append(p.warnings, message), the message kept by its parts
jsonAddWarning(warnings, filename, message, summary, counted) ==
    Append(warnings, [msg |-> message, file |-> filename,
                      summary |-> summary, counted |-> counted])

\* parseFile(filename, fileData, report); it has no failing path
parseFile(st, key, fileData) ==
    LET filename == TrimPrefix(key)
        lineMap == MissingLines(fileData.MissingLines,
                       ExecutedLines(fileData.ExecutedLines, << >>))
        lineTotal == Cardinality(DOMAIN lineMap)
        lineCovered == CoveredCount(lineMap)
        sum == fileData.Summary
        w1 == IF sum.NumStatements # lineTotal
              THEN jsonAddWarning(st.warnings, filename,
                       "summary num_statements doesn't match line count",
                       sum.NumStatements, lineTotal)
              ELSE st.warnings
        w2 == IF sum.CoveredLines # lineCovered
              THEN jsonAddWarning(w1, filename,
                       "summary covered_lines doesn't match calculated covered lines",
                       sum.CoveredLines, lineCovered)
              ELSE w1
        file == IF sum.NumStatements > 0
                THEN [NewFileCoverage(filename) EXCEPT
                         !.Lines = lineMap,
                         !.TotalLines = sum.NumStatements,
                         !.CoveredLines = sum.CoveredLines]
                ELSE [NewFileCoverage(filename) EXCEPT
                         !.Lines = lineMap,
                         !.TotalLines = lineTotal,
                         !.CoveredLines = lineCovered]
    IN [st EXCEPT !.report.Files = PutFile(@, file),
                  !.warnings = IF sum.NumStatements > 0 THEN w2 ELSE st.warnings,
                  !.pending = @ \ {key},
                  !.last = key]

\* NewPyCoverJSONParser() and the locals of Parse before json.Unmarshal.
NewPyCoverJSONParser(doc) ==
    [op |-> "Parse", pos |-> "start", doc |-> doc,
     report |-> [TestName |-> <<"">>, Files |-> << >>],
     warnings |-> << >>, pending |-> {}, last |-> <<"">>,
     ret |-> [op |-> "none"]]

JsonKeys == { <<"a.py">>, <<".", "a.py">>, <<"b.py">> }

JsonEntries ==
    { JsonEntry(<<1>>, <<2>>, <<1, 2>>),
      JsonEntry(<<1>>, <<2>>, << >>),
      JsonEntry(<<1>>, <<1, 2>>, <<0, 0>>),
      JsonEntry(<<1>>, << >>, <<2, 1>>),
      JsonEntry(<<1>>, <<2>>, <<0, 3>>),
      JsonEntry(<<1>>, <<2>>, <<1, -1>>),
      JsonMistyped }

JsonDocs ==
    { [wellFormed |-> FALSE, files |-> << >>] } \cup
    { [wellFormed |-> TRUE, files |-> f] :
        f \in UNION { [K -> JsonEntries] :
                        K \in {S \in SUBSET JsonKeys :
                                   Cardinality(S) <= MaxJsonFiles} } }

InitJSON ==
    /\ jsonRun \in {NewPyCoverJSONParser(doc) : doc \in JsonDocs}
    /\ xmlRun = [op |-> "none"]
    /\ ciRun = [op |-> "none"]
    /\ instances = [op |-> "none"]
    /\ table = [op |-> "none"]
    /\ lcovRun = [op |-> "none"]
    /\ goRun = [op |-> "none"]
    /\ selection = [op |-> "none"]
    /\ detected = [op |-> "none"]
    /\ stream = << >>
    /\ heap = << >>
    /\ reports = << >>
    /\ pc = "start"
    /\ call = NoCall
    /\ recomputed = {}
    /\ diffs = << >>
    /\ overall = [op |-> "none"]

JsonOthers ==
    UNCHANGED <<heap, reports, pc, call, recomputed, diffs, overall, stream,
                detected, selection, lcovRun, goRun,
                xmlRun, ciRun, instances, table>>

\* json.Unmarshal fails: return nil, "failed to parse JSON"
JsonMalformed ==
    /\ jsonRun.op = "Parse" /\ jsonRun.pos = "start"
    /\ UnmarshalFails(jsonRun.doc)
    /\ jsonRun' = [jsonRun EXCEPT !.pos = "returned",
                       !.ret = [report |-> NilReport, err |-> "failed to parse JSON"]]
    /\ JsonOthers

\* json.Unmarshal succeeds
JsonUnmarshal ==
    /\ jsonRun.op = "Parse" /\ jsonRun.pos = "start"
    /\ ~UnmarshalFails(jsonRun.doc)
    /\ jsonRun' = [jsonRun EXCEPT !.pos = "files",
                       !.pending = DOMAIN jsonRun.doc.files]
    /\ JsonOthers

\* One iteration of `for filename, fileData := range coverageJSON.Files`: the
\* order in which range yields the keys of a map is not specified, so the
\* iteration takes any key not yet visited.
JsonFile ==
    /\ jsonRun.op = "Parse" /\ jsonRun.pos = "files"
    /\ \E filename \in jsonRun.pending :
           jsonRun' = parseFile(jsonRun, filename,
                                DecodeEntry(jsonRun.doc.files[filename]))
    /\ JsonOthers

\* Every key was visited: CalculateCoverage on every file, return report, nil
JsonReturn ==
    /\ jsonRun.op = "Parse" /\ jsonRun.pos = "files"
    /\ jsonRun.pending = {}
    /\ LET files == CalculateAll(jsonRun.report.Files)
       IN jsonRun' = [jsonRun EXCEPT !.pos = "returned",
                          !.report.Files = files,
                          !.ret = [report |-> [jsonRun.report EXCEPT !.Files = files],
                                   err |-> "nil"]]
    /\ JsonOthers

NextJSON == JsonMalformed \/ JsonUnmarshal \/ JsonFile \/ JsonReturn

SpecJSON == InitJSON /\ [][NextJSON]_vars

-----------------------------------------------------------------------------
(* Properties of the JSON parser                                           *)

\* An iteration of the range loop; jsonRun'.last is the key it visited.
JsonFileDone == jsonRun.op = "Parse" /\ jsonRun.pos = "files"
                    /\ jsonRun'.pos = "files"

JsonProduced == jsonRun'.report.Files[TrimPrefix(jsonRun'.last)]

JsonLastEntry == jsonRun.doc.files[jsonRun'.last]

JsonSet(lines) == {lines[i] : i \in DOMAIN lines}

\* The warnings the iteration added.
JsonAdded == SubSeq(jsonRun'.warnings, Len(jsonRun.warnings) + 1,
                    Len(jsonRun'.warnings))

\* What C22 says of one entry, for the summaries that count as authoritative.
JsonEntryAsStated(authoritative) ==
    LET e == JsonLastEntry
        fc == JsonProduced
        union == JsonSet(e.executed_lines) \cup JsonSet(e.missing_lines)
        executed == JsonSet(e.executed_lines)
    IN /\ SubSeq(jsonRun'.warnings, 1, Len(jsonRun.warnings)) = jsonRun.warnings
       /\ IF authoritative
          THEN /\ fc.TotalLines = e.summary[2]
               /\ fc.CoveredLines = e.summary[1]
               /\ (JsonAdded # << >>) <=>
                      (e.summary[2] # Cardinality(union)
                          \/ e.summary[1] # Cardinality(executed))
               /\ Len(JsonAdded) =
                      (IF e.summary[2] # Cardinality(union) THEN 1 ELSE 0)
                    + (IF e.summary[1] # Cardinality(executed) THEN 1 ELSE 0)
          ELSE /\ fc.TotalLines = Cardinality(union)
               /\ fc.CoveredLines = Cardinality(executed)
               /\ JsonAdded = << >>

\* C22 as stated: a summary whose num_statements is present and nonzero gives
\* the file's TotalLines and CoveredLines and is cross-checked with a warning;
\* any other entry is counted from its two line sets.
C22_NonzeroSummary ==
    [][JsonFileDone =>
        JsonEntryAsStated(JsonLastEntry.summary # << >>
                              /\ JsonLastEntry.summary[2] # 0)]_vars

\* C22, amended: a summary whose num_statements is present and greater than
\* zero gives the file's TotalLines and CoveredLines, and one warning is added
\* for each of the two that differs from the count computed from
\* executed_lines and missing_lines; with any other summary (absent, zero or
\* negative num_statements) TotalLines is the size of the union of the two
\* line sets, CoveredLines the number of distinct executed lines, and no
\* warning is added.  No entry makes Parse return an error.
C22_PositiveSummary ==
    /\ [][JsonFileDone =>
            JsonEntryAsStated(JsonLastEntry.summary # << >>
                                  /\ JsonLastEntry.summary[2] > 0)]_vars
    /\ [][(jsonRun.op = "Parse" /\ jsonRun.pos = "files"
              /\ jsonRun'.pos = "returned") =>
            /\ jsonRun'.ret.err = "nil"
            /\ jsonRun'.warnings = jsonRun.warnings
            /\ \A f \in DOMAIN jsonRun.report.Files :
                   /\ f \in DOMAIN jsonRun'.ret.report.Files
                   /\ jsonRun'.ret.report.Files[f].TotalLines =
                          jsonRun.report.Files[f].TotalLines
                   /\ jsonRun'.ret.report.Files[f].CoveredLines =
                          jsonRun.report.Files[f].CoveredLines]_vars

\* A document whose only entry has summary (0 covered, 3 statements) against
\* one executed and one missing line was returned: the summary's totals and
\* two warnings.
C22_Witness ==
    /\ jsonRun.op = "Parse" /\ jsonRun.pos = "returned"
    /\ jsonRun.ret.err = "nil"
    /\ jsonRun.doc.files = (<<"b.py">> :> JsonEntry(<<1>>, <<2>>, <<0, 3>>))
    /\ jsonRun.ret.report.Files[<<"b.py">>].TotalLines = 3
    /\ jsonRun.ret.report.Files[<<"b.py">>].CoveredLines = 0
    /\ Len(jsonRun.warnings) = 2

\* C23: when the document is valid JSON and one entry of "files" is not of
\* the expected structure, Parse returns no error, adds a warning, and the
\* report holds every other file; only a document that is not valid JSON
\* makes Parse return an error.
C23_BadEntrySkipped ==
    (jsonRun.op = "Parse" /\ jsonRun.pos = "returned") =>
        LET doc == jsonRun.doc
            bad == {k \in DOMAIN doc.files : ~doc.files[k].typed}
        IN /\ (jsonRun.ret.err # "nil") <=> ~doc.wellFormed
           /\ (doc.wellFormed /\ bad # {}) =>
                  /\ jsonRun.warnings # << >>
                  /\ \A k \in DOMAIN doc.files \ bad :
                         TrimPrefix(k) \in DOMAIN jsonRun.ret.report.Files

-----------------------------------------------------------------------------
(* cmd/covpeek/ci.go: runCI                                                *)
(*                                                                         *)
(* Two of the standard locations are modelled, coverage.out and lcov.info.  *)
(* A file that exists parses to the report in slot A or B of the heap, with *)
(* or without parser warnings, or fails to parse.  --min is a float64,      *)
(* modelled as a rational.                                                  *)

RatGeq(a, b) == a[1] * b[2] >= b[1] * a[2]

RatLess(a, b) == ~RatGeq(a, b)

CiMins == { <<-1, 1>>, <<0, 1>>, <<101, 2>>, <<100, 1>>, <<201, 2>> }

CiCounts == { <<0, 0>>, <<2, 1>>, <<1, 1>> }

CiOutcomes == { "error", "ok", "warned" }

CiFile(name, slot, outcome) == [name |-> name, slot |-> slot, outcome |-> outcome]

\* detectExistingCoverageFiles(): the standard locations that exist, in the
\* order of getPossibleCoverageFiles.
CiExisting ==
    { << >> } \cup
    { <<CiFile("coverage.out", "A", a)>> : a \in CiOutcomes } \cup
    { <<CiFile("lcov.info", "B", b)>> : b \in CiOutcomes } \cup
    { <<CiFile("coverage.out", "A", a), CiFile("lcov.info", "B", b)>> :
        a \in CiOutcomes, b \in CiOutcomes }

NewCI(min, existing) ==
    [op |-> "runCI", pos |-> "start", min |-> min, existing |-> existing,
     read |-> 0, parsed |-> << >>, printed |-> << >>,
     exit |-> -1, err |-> "nil"]

InitCI ==
    /\ \E S \in {T \in SUBSET ({"A", "B"} \X Paths) : Cardinality(T) <= MaxFiles} :
         \E cnt \in [S -> CiCounts] : InitReports(S, cnt)
    /\ ciRun \in {NewCI(min, existing) : min \in CiMins, existing \in CiExisting}
    /\ xmlRun = [op |-> "none"]
    /\ jsonRun = [op |-> "none"]
    /\ instances = [op |-> "none"]
    /\ table = [op |-> "none"]
    /\ lcovRun = [op |-> "none"]
    /\ goRun = [op |-> "none"]
    /\ selection = [op |-> "none"]
    /\ detected = [op |-> "none"]
    /\ stream = << >>
    /\ pc = "start"
    /\ call = NoCall
    /\ recomputed = {}
    /\ diffs = << >>
    /\ overall = [op |-> "none"]

CiOthers ==
    UNCHANGED <<reports, pc, call, recomputed, diffs, overall, stream,
                detected, selection, lcovRun, goRun,
                xmlRun, jsonRun, instances, table>>

\* minCoverage < 0 || minCoverage > 100: return the error
CiRejectMin ==
    /\ ciRun.op = "runCI" /\ ciRun.pos = "start"
    /\ RatLess(ciRun.min, Zero) \/ RatLess(<<100, 1>>, ciRun.min)
    /\ ciRun' = [ciRun EXCEPT !.pos = "returned",
                     !.err = "--min must be between 0 and 100"]
    /\ UNCHANGED heap
    /\ CiOthers

\* --min is in range: detectExistingCoverageFiles
CiDetect ==
    /\ ciRun.op = "runCI" /\ ciRun.pos = "start"
    /\ ~(RatLess(ciRun.min, Zero) \/ RatLess(<<100, 1>>, ciRun.min))
    /\ ciRun' = [ciRun EXCEPT !.pos = "parsing"]
    /\ UNCHANGED heap
    /\ CiOthers

\* One iteration of `for _, file := range existingFiles`: a report that
\* parsed is appended, a failure is printed and skipped.  The parser's
\* warnings stay in the parser, which parseCoverageFile drops.
CiParseFile ==
    /\ ciRun.op = "runCI" /\ ciRun.pos = "parsing"
    /\ ciRun.read < Len(ciRun.existing)
    /\ LET file == ciRun.existing[ciRun.read + 1]
       IN ciRun' = IF file.outcome = "error"
                   THEN [ciRun EXCEPT !.read = @ + 1,
                            !.printed = Append(@, file.name)]
                   ELSE [ciRun EXCEPT !.read = @ + 1,
                            !.parsed = Append(@, file.slot)]
    /\ UNCHANGED heap
    /\ CiOthers

\* len(reports) == 0: os.Exit(1)
CiNoReports ==
    /\ ciRun.op = "runCI" /\ ciRun.pos = "parsing"
    /\ ciRun.read = Len(ciRun.existing)
    /\ ciRun.parsed = << >>
    /\ ciRun' = [ciRun EXCEPT !.pos = "exited", !.exit = 1]
    /\ UNCHANGED heap
    /\ CiOthers

\* A variant of the comparison that also fails the check when a coverage
\* file failed to parse.
CiPassesUnlessSkipped(overallPct, min, printed) ==
    RatGeq(overallPct, min) /\ printed = << >>

\* overallPct >= minCoverage
CiPasses(overallPct, min, printed) == RatGeq(overallPct, min)

\* mergeReports, CalculateOverallCoverage and the threshold check
CiCheck ==
    /\ ciRun.op = "runCI" /\ ciRun.pos = "parsing"
    /\ ciRun.read = Len(ciRun.existing)
    /\ ciRun.parsed # << >>
    /\ LET st == mergeReports(heap, [i \in 1..Len(ciRun.parsed) |->
                                        reports[ciRun.parsed[i]]])
           overallPct == CalculateOverallCoverage(st.heap, st.merged).overallPct
       IN /\ heap' = st.heap
          /\ ciRun' = [ciRun EXCEPT !.pos = "exited",
                          !.exit = IF CiPasses(overallPct, ciRun.min, ciRun.printed)
                                   THEN 0 ELSE 1]
    /\ CiOthers

NextCI == CiRejectMin \/ CiDetect \/ CiParseFile \/ CiNoReports \/ CiCheck

SpecCI == InitCI /\ [][NextCI]_vars

-----------------------------------------------------------------------------
(* Properties of runCI                                                     *)

\* The files of the reports that parsed, as heap objects.
CiParsedObjs ==
    {o \in DOMAIN heap : \E i \in DOMAIN ciRun.parsed : o[1] = ciRun.parsed[i]}

RECURSIVE CiSum(_, _)
CiSum(S, fld) ==
    IF S = {} THEN 0
    ELSE LET o == CHOOSE x \in S : TRUE
         IN heap[o][fld] + CiSum(S \ {o}, fld)

CiMinInRange == RatGeq(ciRun.min, Zero) /\ RatGeq(<<100, 1>>, ciRun.min)

\* 100 * covered / total >= min, for the totals over every file of every
\* report that parsed; the percentage is 0 when total is not positive.
CiAggregateMeets ==
    LET total == CiSum(CiParsedObjs, "TotalLines")
        covered == CiSum(CiParsedObjs, "CoveredLines")
    IN IF total > 0
       THEN 100 * covered * ciRun.min[2] >= ciRun.min[1] * total
       ELSE 0 >= ciRun.min[1]

\* C24: with min in [0,100] and at least one coverage file that parses, runCI
\* exits 0 if and only if the overall percentage of the merged reports is
\* >= min and exits 1 otherwise, whatever warnings the parsers gave and
\* whichever other files failed to parse (those are printed); a min outside
\* [0,100] is rejected with an error before any file is read.
C24_ThresholdOnly ==
    /\ [][(ciRun.op = "runCI" /\ ciRun.pos = "parsing" /\ ciRun'.pos = "exited"
              /\ ciRun.parsed # << >>) =>
            /\ CiMinInRange
            /\ ciRun'.exit \in {0, 1}
            /\ (ciRun'.exit = 0) <=> CiAggregateMeets
            /\ ciRun'.err = "nil"
            /\ Len(ciRun.printed) + Len(ciRun.parsed) = Len(ciRun.existing)]_vars
    /\ [][(ciRun.op = "runCI" /\ ciRun.pos = "start") =>
            IF CiMinInRange
            THEN ciRun'.pos = "parsing" /\ ciRun'.err = "nil"
            ELSE /\ ciRun'.pos = "returned"
                 /\ ciRun'.err # "nil"
                 /\ ciRun'.read = 0
                 /\ ciRun'.exit = -1]_vars
    /\ [][(ciRun.op = "runCI" /\ ciRun.pos = "parsing" /\ ciRun'.pos = "parsing") =>
            LET file == ciRun.existing[ciRun'.read]
            IN /\ (file.outcome = "error") <=>
                      (ciRun'.printed = Append(ciRun.printed, file.name))
               /\ (file.outcome # "error") <=>
                      (ciRun'.parsed = Append(ciRun.parsed, file.slot))
               /\ ciRun'.exit = -1]_vars

\* coverage.out failed to parse, lcov.info parsed with warnings and covers
\* half of its lines or more, min is 50.5: the check passed.
C24_Witness ==
    /\ ciRun.op = "runCI" /\ ciRun.pos = "exited"
    /\ ciRun.min = <<101, 2>>
    /\ ciRun.existing = <<CiFile("coverage.out", "A", "error"),
                          CiFile("lcov.info", "B", "warned")>>
    /\ ciRun.printed = <<"coverage.out">>
    /\ ciRun.parsed = <<"B">>
    /\ ciRun.exit = 0

-----------------------------------------------------------------------------
(* Properties of the reports of the four parsers                           *)

\* The Files map a parser run returned, empty while it has returned none.
ReturnedFiles(run) ==
    IF run.op = "Parse" /\ run.pos = "returned" /\ run.ret.err = "nil"
    THEN run.ret.report.Files
    ELSE << >>

PctWithinRange(files) ==
    \A f \in DOMAIN files :
        /\ files[f].CoveragePct[1] >= 0
        /\ files[f].CoveragePct[1] <= 100 * files[f].CoveragePct[2]

\* C25: every file of a report returned by the record, range, XML or JSON
\* parser has a CoveragePct between 0 and 100 inclusive.
C25_PctWithinRange ==
    /\ PctWithinRange(ReturnedFiles(lcovRun))
    /\ PctWithinRange(ReturnedFiles(goRun))
    /\ PctWithinRange(ReturnedFiles(xmlRun))
    /\ PctWithinRange(ReturnedFiles(jsonRun))

-----------------------------------------------------------------------------
(* The record-format parser: when a file enters the report                  *)

\* Parse on streams of up to MaxRecordLines lines that open, fill and close
\* records, long enough for a path to be closed twice with different counts.
MaxRecordLines == 6

LcovRecordLines ==
    { LcovLine(FALSE, "SF", <<"f.go">>),
      LcovLine(TRUE, "SF", <<"g.go">>),
      LcovLine(FALSE, "LF", <<"2">>),
      LcovLine(FALSE, "DA", <<"1", "1">>),
      LcovLine(FALSE, "", <<"end_of_record">>),
      LcovLine(FALSE, "", <<"garbage">>) }

\* One iteration of the scanner loop, on a line of LcovRecordLines.
LcovScanRecord ==
    /\ lcovRun.op = "Parse" /\ lcovRun.pos = "scanning"
    /\ lcovRun.lineNumber < MaxRecordLines
    /\ \E raw \in LcovRecordLines :
        /\ lcovRun' = LcovLineStep(lcovRun, raw)
        /\ Len(lcovRun'.warnings) <= MaxWarnings
    /\ LcovOthers

NextLCOVRecords == LcovScanRecord \/ LcovReturn

SpecLCOVRecords == InitLCOV /\ [][NextLCOVRecords]_vars

LcovIsSF(l) == l.head = "SF"

LcovIsEndOfRecord(l) == l.head = "" /\ l.parts = <<"end_of_record">>

\* C27: in the record-format parser a file enters the report only when its
\* end_of_record line is processed.  An SF line opens a record for its path
\* and changes neither the report nor the warnings, also when it follows an
\* SF whose record was not closed; end_of_record with an open record puts
\* that record's file under its path, replacing an earlier file of the same
\* path and leaving the other files alone; no other line changes the file
\* set; and the end of input returns the report as it is, adding no file and
\* no warning for a record left open.
C27_EntersAtEndOfRecord ==
    /\ [][LcovScanned =>
            LET l == LcovLast
                open == ~IsNilFile(lcovRun.currentFile)
            IN /\ LcovIsSF(l) =>
                      /\ lcovRun'.report = lcovRun.report
                      /\ lcovRun'.warnings = lcovRun.warnings
                      /\ lcovRun'.currentFile = NewFileCoverage(l.parts)
               /\ (LcovIsEndOfRecord(l) /\ open) =>
                      LET path == lcovRun.currentFile.FileName
                      IN /\ DOMAIN lcovRun'.report.Files =
                                DOMAIN lcovRun.report.Files \cup {path}
                         /\ lcovRun'.report.Files[path] =
                                CalculateCoverage(lcovRun.currentFile)
                         /\ \A f \in DOMAIN lcovRun.report.Files \ {path} :
                                lcovRun'.report.Files[f] = lcovRun.report.Files[f]
                         /\ IsNilFile(lcovRun'.currentFile)
                         /\ lcovRun'.warnings = lcovRun.warnings
               /\ (LcovIsEndOfRecord(l) /\ ~open) =>
                      /\ lcovRun'.report = lcovRun.report
                      /\ lcovRun'.warnings = lcovRun.warnings
                      /\ IsNilFile(lcovRun'.currentFile)
               /\ ~LcovIsEndOfRecord(l) =>
                      lcovRun'.report.Files = lcovRun.report.Files
               /\ (~LcovIsSF(l) /\ ~LcovIsEndOfRecord(l)) =>
                      /\ IsNilFile(lcovRun'.currentFile) = IsNilFile(lcovRun.currentFile)
                      /\ open => lcovRun'.currentFile.FileName =
                                     lcovRun.currentFile.FileName]_vars
    /\ [][(lcovRun.op = "Parse" /\ lcovRun.pos = "scanning"
              /\ lcovRun'.pos = "returned") =>
            /\ lcovRun'.ret.err = "nil"
            /\ lcovRun'.ret.report = lcovRun.report
            /\ lcovRun'.warnings = lcovRun.warnings]_vars

\* Six lines were parsed, as in SF:f.go, LF:2, end_of_record, SF:f.go,
\* end_of_record, SF:g.go: the report holds f.go only, with no lines found,
\* the record of g.go is still open, and there is no warning.
C27_Witness ==
    /\ lcovRun.op = "Parse" /\ lcovRun.pos = "returned"
    /\ lcovRun.lineNumber = 6
    /\ DOMAIN lcovRun.ret.report.Files = {<<"f.go">>}
    /\ lcovRun.ret.report.Files[<<"f.go">>].TotalLines = 0
    /\ ~IsNilFile(lcovRun.currentFile)
    /\ lcovRun.currentFile.FileName = <<"g.go">>
    /\ lcovRun.last = LcovLine(TRUE, "SF", <<"g.go">>)
    /\ lcovRun.warnings = << >>

-----------------------------------------------------------------------------
(* Parser instances that are used for more than one Parse call              *)
(*                                                                         *)
(* A parser's only fields are warnings and, for the range parser, mode.     *)
(* Parse creates its report and its other locals anew on every call and     *)
(* assigns to p.warnings by append only.  Here a call is one action: the    *)
(* whole of Parse on an input, on the instance as the earlier calls left    *)
(* it.                                                                      *)

MaxCalls == 3

\* A variant in which Parse starts by emptying the warnings.
OnInstanceCleared(fresh, p) == fresh

\* The parser struct at the start of a Parse call: fresh locals, p's fields.
OnInstance(fresh, p) == [fresh EXCEPT !.warnings = p.warnings]

\* LCOVParser.Parse on the lines of a stream
LcovParseCall(p, lines) ==
    LET st == LcovParse(OnInstance(NewLCOVParser, p), lines)
    IN [warnings |-> st.warnings, err |-> "nil"]

RECURSIVE GoEntries(_, _)
GoEntries(st, lines) ==
    IF lines = << >> THEN st
    ELSE GoEntries(GoLineStep(st, Head(lines)), Tail(lines))

\* GoCoverParser.Parse on the lines of a stream
GoParseCall(p, lines) ==
    IF lines = << >>
    THEN [warnings |-> p.warnings, mode |-> p.mode, err |-> "empty coverage file"]
    ELSE LET first == GoFirstLineStep(
                          [OnInstance(NewGoCoverParser, p) EXCEPT !.mode = p.mode],
                          Head(lines))
         IN IF first.pos = "returned"
            THEN [warnings |-> first.warnings, mode |-> first.mode,
                  err |-> first.ret.err]
            ELSE LET st == GoEntries(first, Tail(lines))
                 IN [warnings |-> st.warnings, mode |-> st.mode, err |-> "nil"]

RECURSIVE XmlClassesOf(_, _)
XmlClassesOf(st, classes) ==
    IF classes = << >> THEN st
    ELSE XmlClassesOf(parseClass(st, Head(classes)), Tail(classes))

\* PyCoverXMLParser.Parse on a document
XmlParseCall(p, doc) ==
    IF ~doc.wellFormed
    THEN [warnings |-> p.warnings, err |-> "failed to parse XML"]
    ELSE LET st == XmlClassesOf(OnInstance(NewPyCoverXMLParser, p), doc.classes)
         IN [warnings |-> st.warnings, err |-> "nil"]

RECURSIVE JsonFilesOf(_, _, _)
JsonFilesOf(st, doc, order) ==
    IF order = << >> THEN st
    ELSE JsonFilesOf(parseFile(st, Head(order), DecodeEntry(doc.files[Head(order)])),
                     doc, Tail(order))

\* PyCoverJSONParser.Parse on a document, the range loop visiting the keys
\* in the given order
JsonParseCall(p, doc, order) ==
    IF UnmarshalFails(doc)
    THEN [warnings |-> p.warnings, err |-> "failed to parse JSON"]
    ELSE LET st == JsonFilesOf(OnInstance(NewPyCoverJSONParser(doc), p), doc, order)
         IN [warnings |-> st.warnings, err |-> "nil"]

LcovCallStreams ==
    { << >>,
      << LcovLine(FALSE, "", <<"garbage">>) >>,
      << LcovLine(FALSE, "SF", <<"f.go">>),
         LcovLine(FALSE, "DA", <<"1", "x">>),
         LcovLine(FALSE, "", <<"end_of_record">>) >> }

GoCallStreams ==
    { << >>,
      << GoBlank >>,
      << ModeLine(FALSE, <<Word("bogus")>>) >>,
      << ModeLine(FALSE, <<Word("set")>>), Entry("g.go", "1", "1", "x") >> }

XmlCallDocs ==
    { [wellFormed |-> FALSE, classes |-> << >>],
      [wellFormed |-> TRUE, classes |-> << Class(<<"a.py">>, <<XmlLine(1, 1)>>) >>],
      [wellFormed |-> TRUE,
       classes |-> << Class(<<"a.py">>, <<XmlLine(1, -1)>>),
                      Class(<<"b.py">>, <<XmlLine(2, -1)>>) >>] }

JsonCallDocs ==
    { [wellFormed |-> FALSE, files |-> << >>],
      [wellFormed |-> TRUE, files |-> (<<"a.py">> :> JsonMistyped)],
      [wellFormed |-> TRUE,
       files |-> (<<"a.py">> :> JsonEntry(<<1>>, <<2>>, <<0, 3>>))
                 @@ (<<"b.py">> :> JsonEntry(<<1>>, << >>, <<2, 1>>))] }

NewInstances ==
    [op |-> "instances", calls |-> 0,
     lcov |-> [warnings |-> << >>],
     go |-> [warnings |-> << >>, mode |-> ""],
     xml |-> [warnings |-> << >>],
     json |-> [warnings |-> << >>],
     last |-> [parser |-> "none"]]

InitInstances ==
    /\ instances = NewInstances
    /\ xmlRun = [op |-> "none"]
    /\ jsonRun = [op |-> "none"]
    /\ ciRun = [op |-> "none"]
    /\ table = [op |-> "none"]
    /\ lcovRun = [op |-> "none"]
    /\ goRun = [op |-> "none"]
    /\ selection = [op |-> "none"]
    /\ detected = [op |-> "none"]
    /\ stream = << >>
    /\ heap = << >>
    /\ reports = << >>
    /\ pc = "start"
    /\ call = NoCall
    /\ recomputed = {}
    /\ diffs = << >>
    /\ overall = [op |-> "none"]

InstancesOthers ==
    UNCHANGED <<heap, reports, pc, call, recomputed, diffs, overall, stream,
                detected, selection, lcovRun, goRun,
                xmlRun, jsonRun, ciRun, table>>

CallLCOVParser ==
    /\ instances.op = "instances" /\ instances.calls < MaxCalls
    /\ \E lines \in LcovCallStreams :
        LET r == LcovParseCall(instances.lcov, lines)
        IN instances' = [instances EXCEPT
                            !.calls = @ + 1,
                            !.lcov = [warnings |-> r.warnings],
                            !.last = [parser |-> "lcov", input |-> lines,
                                      err |-> r.err]]
    /\ InstancesOthers

CallGoCoverParser ==
    /\ instances.op = "instances" /\ instances.calls < MaxCalls
    /\ \E lines \in GoCallStreams :
        LET r == GoParseCall(instances.go, lines)
        IN instances' = [instances EXCEPT
                            !.calls = @ + 1,
                            !.go = [warnings |-> r.warnings, mode |-> r.mode],
                            !.last = [parser |-> "go", input |-> lines,
                                      err |-> r.err]]
    /\ InstancesOthers

CallPyCoverXMLParser ==
    /\ instances.op = "instances" /\ instances.calls < MaxCalls
    /\ \E doc \in XmlCallDocs :
        LET r == XmlParseCall(instances.xml, doc)
        IN instances' = [instances EXCEPT
                            !.calls = @ + 1,
                            !.xml = [warnings |-> r.warnings],
                            !.last = [parser |-> "xml", input |-> doc,
                                      err |-> r.err]]
    /\ InstancesOthers

CallPyCoverJSONParser ==
    /\ instances.op = "instances" /\ instances.calls < MaxCalls
    /\ \E doc \in JsonCallDocs :
        \E order \in Orders(DOMAIN doc.files) :
            LET r == JsonParseCall(instances.json, doc, order)
            IN instances' = [instances EXCEPT
                                !.calls = @ + 1,
                                !.json = [warnings |-> r.warnings],
                                !.last = [parser |-> "json", input |-> doc,
                                          order |-> order, err |-> r.err]]
    /\ InstancesOthers

NextInstances ==
    CallLCOVParser \/ CallGoCoverParser \/ CallPyCoverXMLParser
        \/ CallPyCoverJSONParser

SpecInstances == InitInstances /\ [][NextInstances]_vars

-----------------------------------------------------------------------------
(* Properties of repeated Parse calls                                      *)

\* p.GetWarnings()
GetWarnings(p) == p.warnings

\* The warnings the last call gives on a parser just constructed.
AloneWarnings(last) ==
    IF last.parser = "lcov"
        THEN LcovParse(NewLCOVParser, last.input).warnings
    ELSE IF last.parser = "go"
        THEN (IF last.input = << >> THEN << >>
              ELSE LET first == GoFirstLineStep(NewGoCoverParser, Head(last.input))
                   IN IF first.pos = "returned" THEN first.warnings
                      ELSE GoEntries(first, Tail(last.input)).warnings)
    ELSE IF last.parser = "xml"
        THEN (IF ~last.input.wellFormed THEN << >>
              ELSE XmlClassesOf(NewPyCoverXMLParser, last.input.classes).warnings)
    ELSE (IF UnmarshalFails(last.input) THEN << >>
          ELSE JsonFilesOf(NewPyCoverJSONParser(last.input), last.input,
                           last.order).warnings)

\* C28: the warnings of a parser instance are append-only across Parse calls:
\* a call on one of the four parsers, successful or failed, leaves that
\* parser's GetWarnings equal to what it was before the call followed by the
\* warnings of this call (those the call gives on a new parser, in order),
\* and leaves the warnings of the other instances alone.
C28_WarningsAppendOnly ==
    [][(instances.op = "instances" /\ instances'.calls = instances.calls + 1) =>
        LET last == instances'.last
            added == AloneWarnings(last)
        IN /\ GetWarnings(instances'.lcov) =
                  GetWarnings(instances.lcov)
                      \o (IF last.parser = "lcov" THEN added ELSE << >>)
           /\ GetWarnings(instances'.go) =
                  GetWarnings(instances.go)
                      \o (IF last.parser = "go" THEN added ELSE << >>)
           /\ GetWarnings(instances'.xml) =
                  GetWarnings(instances.xml)
                      \o (IF last.parser = "xml" THEN added ELSE << >>)
           /\ GetWarnings(instances'.json) =
                  GetWarnings(instances.json)
                      \o (IF last.parser = "json" THEN added ELSE << >>)]_vars

\* The record parser was called three times, the last time on an empty
\* stream: it holds the warning of the first call (line 1) and then the one
\* of the second call (line 2).
C28_Witness ==
    /\ instances.op = "instances" /\ instances.calls = 3
    /\ instances.last.parser = "lcov" /\ instances.last.input = << >>
    /\ Len(GetWarnings(instances.lcov)) = 2
    /\ GetWarnings(instances.lcov)[1].line = 1
    /\ GetWarnings(instances.lcov)[2].line = 2

-----------------------------------------------------------------------------
(* Determinism of parsing                                                  *)

\* The report PyCoverJSONParser.Parse returns for doc when the range loop
\* visits the keys in the given order.
JsonReportFor(doc, order) ==
    CalculateAll(JsonFilesOf(NewPyCoverJSONParser(doc), doc, order).report.Files)

\* C29: two Parse calls of fresh parsers on the same input return equal
\* reports.  The record, range and XML parsers read their input in order, so
\* their report is a function of the input; for the JSON parser the claim is
\* that the report returned equals the report of any other run on the same
\* document, in whatever order that run's range loop visits the keys, also
\* when two keys denote the same path once the leading "./" is stripped.
C29_Deterministic ==
    (jsonRun.op = "Parse" /\ jsonRun.pos = "returned" /\ jsonRun.ret.err = "nil") =>
        \A order \in Orders(DOMAIN jsonRun.doc.files) :
            JsonReportFor(jsonRun.doc, order) = jsonRun.ret.report.Files

-----------------------------------------------------------------------------
(* Reports and their keys: AddFile, GetFile, the parsers, mergeReports and  *)
(* filterBelowThreshold                                                    *)
(*                                                                         *)
(* One specification joins the ways a report is built.  A run is either one *)
(* Parse of one of the four parsers, or a caller's script over reports on   *)
(* the heap: slots A and B hold parsed reports, slot C starts as            *)
(* NewCoverageReport() and receives what the calls build.                   *)

MaxOps == 3
MaxKeyEntries == 2

\* cmd/covpeek/filters.go: the loop of filterBelowThreshold over the keys S
\* not yet visited; the keys of one map are distinct, so the visits commute.
RECURSIVE FilterFiles(_, _, _, _, _)
FilterFiles(h, r, S, threshold, filtered) ==
    IF S = {} THEN filtered
    ELSE LET p == CHOOSE x \in S : TRUE
             fileCov == r[p]
         IN FilterFiles(h, r, S \ {p}, threshold,
                IF RatLess(h[fileCov].CoveragePct, threshold)
                THEN AddFile(h, filtered, fileCov)
                ELSE filtered)

filterBelowThreshold(h, r, threshold) ==
    FilterFiles(h, r, DOMAIN r, threshold, NewCoverageReport)

KeyCounts == { <<2, 1>>, <<1, 1>> }

Thresholds == { <<50, 1>>, <<100, 1>> }

KeyNames == Paths \cup {"h.go"}

MergeLists == { <<"A", "B">>, <<"B", "A">>, <<"C", "B">> }

OpsCall(op, args, ret) == [op |-> op, args |-> args, ret |-> ret, n |-> call.n + 1]

InitOps ==
    /\ \E S \in {T \in SUBSET ({"A", "B"} \X Paths) : Cardinality(T) <= MaxFiles} :
         \E cnt \in [S -> KeyCounts] : InitReports(S, cnt)
    /\ pc = "ops"
    /\ call = [op |-> "none", args |-> << >>, ret |-> Nil, n |-> 0]
    /\ recomputed = {}
    /\ diffs = << >>
    /\ overall = [op |-> "none"]
    /\ stream = << >>
    /\ detected = [op |-> "none"]
    /\ selection = [op |-> "none"]
    /\ lcovRun = [op |-> "none"]
    /\ goRun = [op |-> "none"]
    /\ xmlRun = [op |-> "none"]
    /\ jsonRun = [op |-> "none"]
    /\ ciRun = [op |-> "none"]
    /\ instances = [op |-> "none"]
    /\ table = [op |-> "none"]

\* A first line followed by up to MaxKeyEntries lines.
InitGoKeys ==
    /\ stream \in {s \in GoStreams : Len(s) <= 1 + MaxKeyEntries}
    /\ goRun = NewGoCoverParser
    /\ lcovRun = [op |-> "none"]
    /\ xmlRun = [op |-> "none"]
    /\ jsonRun = [op |-> "none"]
    /\ ciRun = [op |-> "none"]
    /\ instances = [op |-> "none"]
    /\ table = [op |-> "none"]
    /\ selection = [op |-> "none"]
    /\ detected = [op |-> "none"]
    /\ heap = << >>
    /\ reports = << >>
    /\ pc = "start"
    /\ call = NoCall
    /\ recomputed = {}
    /\ diffs = << >>
    /\ overall = [op |-> "none"]

OpsOthers ==
    UNCHANGED <<pc, recomputed, diffs, overall, stream,
                detected, selection, lcovRun, goRun,
                xmlRun, jsonRun, ciRun, instances, table>>

\* reports[C].AddFile(obj), for a FileCoverage of any report
OpsAddFile ==
    /\ pc = "ops" /\ call.n < MaxOps
    /\ \E obj \in DOMAIN heap :
        /\ reports' = [reports EXCEPT !["C"] = AddFile(heap, @, obj)]
        /\ call' = OpsCall("AddFile", <<"C", obj>>, Nil)
    /\ UNCHANGED heap
    /\ OpsOthers

\* reports[slot].GetFile(name)
OpsGetFile ==
    /\ pc = "ops" /\ call.n < MaxOps
    /\ \E slot \in InReports, name \in KeyNames :
        call' = OpsCall("GetFile", <<slot, name>>, GetFile(reports[slot], name))
    /\ UNCHANGED <<heap, reports>>
    /\ OpsOthers

\* reports[C] = filterBelowThreshold(reports[slot], threshold)
OpsFilter ==
    /\ pc = "ops" /\ call.n < MaxOps
    /\ \E slot \in InReports, threshold \in Thresholds :
        /\ reports' = [reports EXCEPT
                          !["C"] = filterBelowThreshold(heap, reports[slot], threshold)]
        /\ call' = OpsCall("filterBelowThreshold", <<slot, threshold>>, Nil)
    /\ UNCHANGED heap
    /\ OpsOthers

\* reports[C] = mergeReports(rs)
OpsMerge ==
    /\ pc = "ops" /\ call.n < MaxOps
    /\ \E rs \in MergeLists :
        LET st == mergeReports(heap, [i \in 1..Len(rs) |-> reports[rs[i]]])
        IN /\ heap' = st.heap
           /\ reports' = [reports EXCEPT !["C"] = st.merged]
           /\ call' = OpsCall("mergeReports", rs, Nil)
    /\ OpsOthers

NextReports ==
    \/ OpsAddFile \/ OpsGetFile \/ OpsFilter \/ OpsMerge
    \/ LcovScanRecord \/ LcovReturn
    \/ GoEmptyFile \/ GoFirstLine \/ GoScan \/ GoReturn
    \/ XmlMalformed \/ XmlUnmarshal \/ XmlClass \/ XmlReturn
    \/ JsonMalformed \/ JsonUnmarshal \/ JsonFile \/ JsonReturn

SpecReports ==
    /\ InitOps \/ InitLCOV \/ InitGoKeys \/ InitXML \/ InitJSON
    /\ [][NextReports]_vars

-----------------------------------------------------------------------------
(* Properties of the keys of Files                                         *)

\* Every key of a Files map of FileCoverage values is the FileName under it.
KeysAreNames(files) == \A f \in DOMAIN files : files[f].FileName = f

\* The same for the reports on the heap.
HeapKeysAreNames ==
    \A slot \in DOMAIN reports :
        \A f \in DOMAIN reports[slot] : heap[reports[slot][f]].FileName = f

\* The Files map a parser run is building, and the one it returned.
BuiltFiles(run) ==
    IF run.op = "Parse" THEN run.report.Files ELSE << >>

\* C26: in every report built by AddFile calls, by a parser, by mergeReports
\* or by filterBelowThreshold, each key of Files is the FileName of the
\* FileCoverage stored under it; AddFile of a file whose path is present
\* replaces that entry and touches no other; and GetFile returns absent
\* exactly for a path that is not a key, which a path never added is, since
\* only AddFile, mergeReports and filterBelowThreshold change a key set.
C26_KeyIsFileName ==
    /\ [](/\ HeapKeysAreNames
          /\ KeysAreNames(BuiltFiles(lcovRun)) /\ KeysAreNames(ReturnedFiles(lcovRun))
          /\ KeysAreNames(BuiltFiles(goRun)) /\ KeysAreNames(ReturnedFiles(goRun))
          /\ KeysAreNames(BuiltFiles(xmlRun)) /\ KeysAreNames(ReturnedFiles(xmlRun))
          /\ KeysAreNames(BuiltFiles(jsonRun)) /\ KeysAreNames(ReturnedFiles(jsonRun)))
    /\ [][(pc = "ops" /\ call'.n = call.n + 1) =>
            /\ call'.op = "AddFile" =>
                   LET obj == call'.args[2]
                       name == heap[obj].FileName
                   IN /\ DOMAIN reports'["C"] = DOMAIN reports["C"] \cup {name}
                      /\ reports'["C"][name] = obj
                      /\ \A f \in DOMAIN reports["C"] \ {name} :
                             reports'["C"][f] = reports["C"][f]
                      /\ GetFile(reports'["C"], name) = obj
            /\ call'.op = "GetFile" =>
                   LET slot == call'.args[1]
                       name == call'.args[2]
                   IN /\ (call'.ret = Nil) <=> (name \notin DOMAIN reports[slot])
                      /\ name \in DOMAIN reports[slot] =>
                             /\ call'.ret = reports[slot][name]
                             /\ heap[call'.ret].FileName = name
                      /\ reports' = reports
            /\ call'.op = "filterBelowThreshold" =>
                   LET src == reports[call'.args[1]]
                   IN /\ DOMAIN reports'["C"] =
                             {f \in DOMAIN src :
                                  RatLess(heap[src[f]].CoveragePct, call'.args[2])}
                      /\ \A f \in DOMAIN reports'["C"] : reports'["C"][f] = src[f]
            /\ call'.op = "mergeReports" =>
                   DOMAIN reports'["C"] =
                       UNION {DOMAIN reports[call'.args[i]] : i \in DOMAIN call'.args}
            /\ \A slot \in {"A", "B"} : reports'[slot] = reports[slot]]_vars

\* g.go of report B was added to a report that held g.go of report A: the key
\* g.go now leads to B's file, and GetFile of a path never added gave nil.
C26_Witness ==
    /\ pc = "ops"
    /\ call.op = "GetFile" /\ call.args = <<"C", "h.go">> /\ call.ret = Nil
    /\ call.n = 3
    /\ DOMAIN heap = {<<"A", "g.go">>, <<"B", "g.go">>}
    /\ heap[<<"A", "g.go">>].TotalLines = 2
    /\ heap[<<"B", "g.go">>].TotalLines = 1
    /\ reports["C"] = ("g.go" :> <<"B", "g.go">>)

-----------------------------------------------------------------------------
(* cmd/covpeek: the tableModel of the terminal UI                          *)
(*                                                                         *)
(* A row is <<name, total, covered, pct>>.  The code keeps the cells as     *)
(* text and compares strconv.ParseFloat of the text: a "%d" cell reads back *)
(* as its integer, a "%.2f" cell as the percentage rounded to hundredths,   *)
(* kept here as the number of hundredths.  File names are compared as       *)
(* strings, here by their rank.                                             *)

MaxRows == 2

TableNames == {"a.go", "b.go", "c.go"}

NameRank == ("a.go" :> 1) @@ ("b.go" :> 2) @@ ("c.go" :> 3)

TableCounts == { <<0, 0>>, <<2, 1>>, <<1, 1>> }

\* The reports handed to newTableModel, as Files maps of FileCoverage values.
TableReports ==
    UNION { { [n \in K |-> ParsedFile(n, cnt[n][1], cnt[n][2])] :
                cnt \in [K -> TableCounts] } :
            K \in {S \in SUBSET TableNames : Cardinality(S) <= MaxRows} }

\* fmt.Sprintf("%.2f", pct) read back by ParseFloat, in hundredths
Hundredths(pct) == (200 * pct[1] + pct[2]) \div (2 * pct[2])

\* table.Row{name, "%d" TotalLines, "%d" CoveredLines, "%.2f" CoveragePct}
TableRow(name, cov) ==
    <<name, cov.TotalLines, cov.CoveredLines, Hundredths(cov.CoveragePct)>>

\* The comparison function sortByColumn hands to sort.Slice.
RowLess(col, asc, a, b) ==
    IF col = 1 \/ col = 2 \/ col = 3
    THEN (IF asc THEN a[col + 1] < b[col + 1] ELSE a[col + 1] > b[col + 1])
    ELSE LET ra == IF col < Len(a) THEN NameRank[a[col + 1]] ELSE 0
             rb == IF col < Len(b) THEN NameRank[b[col + 1]] ELSE 0
         IN IF asc THEN ra < rb ELSE ra > rb

\* sort.Slice is not stable: it leaves the rows in some order that is sorted
\* for the comparison function.
SortedOrders(rows, col, asc) ==
    { q \in { [i \in DOMAIN rows |-> rows[o[i]]] : o \in Orders(DOMAIN rows) } :
        \A i, j \in DOMAIN q : i < j => ~RowLess(col, asc, q[j], q[i]) }

\* newTableModel(report): the rows in the order of a range over the map, then
\* sorted by coverage descending; sortCol 3, sortAsc false, table focused.
newTableModel(report, rows) ==
    [op |-> "tableModel", report |-> report, rows |-> rows,
     sortCol |-> 3, sortAsc |-> FALSE, focused |-> TRUE, cursor |-> 0,
     width |-> 0, height |-> 0, cmd |-> "nil"]

RowsOf(report) ==
    { [i \in 1..Cardinality(DOMAIN report) |-> TableRow(o[i], report[o[i]])] :
        o \in Orders(DOMAIN report) }

ColWidths == <<50, 12, 13, 11>>

RECURSIVE ColStart(_)
ColStart(i) == IF i = 1 THEN 0 ELSE ColStart(i - 1) + ColWidths[i - 1] + 1

\* A variant that derives the column from X by division.
ClickedColumnByDivision(x) == IF x < 0 THEN -1 ELSE x \div 23

\* The loop over colWidths in Update: the index of the column whose span holds
\* X, or -1 when the loop ends without a match.
ClickedColumn(x) ==
    LET hit == {i \in DOMAIN ColWidths :
                    x >= ColStart(i) /\ x < ColStart(i) + ColWidths[i]}
    IN IF hit = {} THEN -1
       ELSE (CHOOSE i \in hit : \A j \in hit : i <= j) - 1

\* m.table.Update(msg) of the table widget: with the table focused the arrow
\* keys move the cursor; nothing else of the model is touched.
TableUpdate(m, msg) ==
    IF msg.type = "key" /\ m.focused /\ msg.key = "down"
        THEN [m EXCEPT !.cursor = IF @ + 1 < Len(m.rows) THEN @ + 1 ELSE @,
                       !.cmd = "nil"]
    ELSE IF msg.type = "key" /\ m.focused /\ msg.key = "up"
        THEN [m EXCEPT !.cursor = IF @ > 0 THEN @ - 1 ELSE 0, !.cmd = "nil"]
    ELSE [m EXCEPT !.cmd = "nil"]

TableKeys == {"esc", "q", "ctrl+c", "enter", "s", "f", "t", "c", "p", "r",
              "up", "down", "x"}

KeyMsg(key) == [type |-> "key", key |-> key]

MouseMsg(action, button, x, y) ==
    [type |-> "mouse", action |-> action, button |-> button, X |-> x, Y |-> y]

WindowSizeMsg(w, h) == [type |-> "size", Width |-> w, Height |-> h]

MouseXs == {-1, 0, 50, 51, 63, 77, 88, 89, 200}

MouseYs == {2, 3}

WindowSizes == { <<80, 24>>, <<10, 3>> }

InitTable ==
    /\ \E report \in TableReports :
        \E built \in RowsOf(report) :
            \E rows \in SortedOrders(built, 3, FALSE) :
                table = newTableModel(report, rows)
    /\ xmlRun = [op |-> "none"]
    /\ jsonRun = [op |-> "none"]
    /\ ciRun = [op |-> "none"]
    /\ instances = [op |-> "none"]
    /\ lcovRun = [op |-> "none"]
    /\ goRun = [op |-> "none"]
    /\ selection = [op |-> "none"]
    /\ detected = [op |-> "none"]
    /\ stream = << >>
    /\ heap = << >>
    /\ reports = << >>
    /\ pc = "start"
    /\ call = NoCall
    /\ recomputed = {}
    /\ diffs = << >>
    /\ overall = [op |-> "none"]

TableOthers ==
    UNCHANGED <<heap, reports, pc, call, recomputed, diffs, overall, stream,
                detected, selection, lcovRun, goRun,
                xmlRun, jsonRun, ciRun, instances>>

\* case tea.WindowSizeMsg
UpdateWindowSize ==
    /\ table.op = "tableModel"
    /\ \E size \in WindowSizes :
        table' = [table EXCEPT !.width = size[1], !.height = size[2] - 4,
                               !.cmd = "nil"]
    /\ TableOthers

\* case tea.MouseMsg, then m.table.Update(msg)
UpdateMouse ==
    /\ table.op = "tableModel"
    /\ \E action \in {"press", "release"}, button \in {"left", "right"},
          x \in MouseXs, y \in MouseYs :
        LET msg == MouseMsg(action, button, x, y)
            col == ClickedColumn(x)
        IN IF action = "press" /\ button = "left" /\ y <= 2 /\ col # -1
           THEN \E rows \in SortedOrders(table.rows, col, table.sortAsc) :
                    table' = TableUpdate([table EXCEPT !.sortCol = col,
                                                       !.rows = rows], msg)
           ELSE table' = TableUpdate(table, msg)
    /\ TableOthers

\* case tea.KeyMsg, then m.table.Update(msg) unless the case returned
UpdateKey ==
    /\ table.op = "tableModel"
    /\ \E key \in TableKeys :
        LET msg == KeyMsg(key)
        IN IF key = "esc"
               THEN table' = TableUpdate([table EXCEPT !.focused = ~@], msg)
           ELSE IF key \in {"q", "ctrl+c", "enter"}
               THEN table' = [table EXCEPT !.cmd = "quit"]
           ELSE IF key = "s"
               THEN table' = [table EXCEPT !.cmd = "nil"]
           ELSE IF key \in {"f", "t", "c", "p"}
               THEN LET col == CASE key = "f" -> 0 [] key = "t" -> 1
                                 [] key = "c" -> 2 [] key = "p" -> 3
                    IN \E rows \in SortedOrders(table.rows, col, table.sortAsc) :
                           table' = TableUpdate([table EXCEPT !.sortCol = col,
                                                              !.rows = rows], msg)
           ELSE IF key = "r"
               THEN \E rows \in SortedOrders(table.rows, table.sortCol,
                                             ~table.sortAsc) :
                        table' = TableUpdate([table EXCEPT !.sortAsc = ~@,
                                                           !.rows = rows], msg)
           ELSE table' = TableUpdate(table, msg)
    /\ TableOthers

NextTable == UpdateWindowSize \/ UpdateMouse \/ UpdateKey

SpecTable == InitTable /\ [][NextTable]_vars

-----------------------------------------------------------------------------
(* Properties of the tableModel                                            *)

TableCount(rows, r) == Cardinality({i \in DOMAIN rows : rows[i] = r})

\* The rows hold every file of the report once, and nothing else.
RowsAreTheReport ==
    /\ Len(table.rows) = Cardinality(DOMAIN table.report)
    /\ \A n \in DOMAIN table.report :
           TableCount(table.rows, TableRow(n, table.report[n])) = 1

\* C30: after any sequence of Update messages on a tableModel created by
\* newTableModel, sortCol is one of 0, 1, 2, 3, and the multiset of the table
\* rows is the one built from the report.
C30_SortColAndRows ==
    table.op = "tableModel" =>
        /\ table.sortCol \in {0, 1, 2, 3}
        /\ RowsAreTheReport

\* Two files with different coverage, sorted by name ascending after key
\* presses and a click: the row order differs from the initial one.
C30_Witness ==
    /\ table.op = "tableModel"
    /\ table.sortCol = 0 /\ table.sortAsc
    /\ Len(table.rows) = 2
    /\ table.rows[1][1] = "a.go" /\ table.rows[2][1] = "b.go"
    /\ table.rows[1][4] < table.rows[2][4]
    /\ table.width = 80

====
